---- MODULE Spec2Model ----
(***************************************************************************)
(* A model of the adaptive ingestion core of jeanacademy:                  *)
(*   app/db/adaptive_dao.py       AdaptiveDatabaseDAO                      *)
(*   app/ingest/adaptive_scanner.py  AdaptiveModuleScanner                 *)
(*                                                                         *)
(* Python strings are sequences of one-character strings, so that the      *)
(* string operations of the code ("@" in email, split, lower, replace,     *)
(* regular expressions) are computed and not assumed.  Enumerated values   *)
(* (status, sync_type, error-message kinds) are TLA+ strings.              *)
(***************************************************************************)
EXTENDS Integers, Sequences, FiniteSets, TLC

VARIABLES
    table_schemas, \* AdaptiveDatabaseDAO.table_schemas: table -> column names
    db,            \* the relational store: one set of rows per table
    clock,         \* datetime.now() / NOW()
    pc,            \* position of full_adaptive_scan
    run,           \* number of full scans started so far
    faults,        \* collaborator calls that have raised so far
    sync_id,       \* local sync_id of full_adaptive_scan
    sync_results,  \* local sync_results of full_adaptive_scan
    drive_modules, \* sync_modules_to_db: folders still to reconcile
    modules,       \* local modules of full_adaptive_scan, still to scan
    scan,          \* scan_module_smart locals: module, files left, results
    full_results,  \* local full_results of full_adaptive_scan
    ret,           \* what the last full_adaptive_scan gave its caller
    call,          \* the last call made on a component alone, and its answer
    hist           \* observations of the runs, written by no program step

vars == <<table_schemas, db, clock, pc, run, faults, sync_id, sync_results,
          drive_modules, modules, scan, full_results, ret, call, hist>>

(***************************************************************************)
(* Bounds of the model.                                                    *)
(***************************************************************************)
MaxRuns == 2
MaxFaults == 2
MaxCalls == 3
MaxItems == 3
MaxErrors == 5
MaxCycles == 3

(***************************************************************************)
(* Values.  None is typed by column: TLC cannot compare an integer with a  *)
(* sequence.                                                               *)
(***************************************************************************)
NoneInt == -1
NoneText == <<"<None>">>
NoneAtom == "<None>"

IntColumns ==
    {"id", "order_index", "module_id", "student_id", "size_bytes", "size_mb",
     "created_time", "modified_time", "detected_at", "updated_at",
     "started_at", "completed_at", "files_processed", "errors"}

AtomColumns == {"sync_type", "status"}

NoneOf(column) ==
    IF column \in IntColumns THEN NoneInt
    ELSE IF column \in AtomColumns THEN NoneAtom
    ELSE NoneText

IsNone(column, value) == value = NoneOf(column)

Range(s) == {s[i] : i \in 1..Len(s)}

\* substring in string (Python's "in" on str)
Contains(s, sub) ==
    \E i \in 0..(Len(s) - Len(sub)) :
        \A j \in 1..Len(sub) : s[i + j] = sub[j]

\* list[:n]
Take(s, n) == SubSeq(s, 1, IF Len(s) < n THEN Len(s) ELSE n)

(***************************************************************************)
(* Characters.  The alphabet of the model: ASCII letters and digits, the   *)
(* Spanish accented letters of the range À-ÿ, and the punctuation that      *)
(* file names, emails and module names use.                                *)
(***************************************************************************)
UpperAscii ==
    <<"A", "B", "C", "D", "E", "F", "G", "H", "I", "J", "K", "L", "M",
      "N", "O", "P", "Q", "R", "S", "T", "U", "V", "W", "X", "Y", "Z">>
LowerAscii ==
    <<"a", "b", "c", "d", "e", "f", "g", "h", "i", "j", "k", "l", "m",
      "n", "o", "p", "q", "r", "s", "t", "u", "v", "w", "x", "y", "z">>
UpperAccent == <<"Á", "É", "Í", "Ó", "Ú", "Ñ">>
LowerAccent == <<"á", "é", "í", "ó", "ú", "ñ">>
UpperAll == UpperAscii \o UpperAccent
LowerAll == LowerAscii \o LowerAccent

Digit == {"0", "1", "2", "3", "4", "5", "6", "7", "8", "9"}
AsciiUpper == Range(UpperAscii)            \* [A-Z]
AsciiLower == Range(LowerAscii)            \* [a-z]
AsciiLetter == AsciiUpper \cup AsciiLower  \* [A-Za-z]
Latin1Letter == Range(UpperAccent) \cup Range(LowerAccent)   \* À-ÿ
Letter == AsciiLetter \cup Latin1Letter    \* [A-Za-zÀ-ÿ]
Space == {" "}                             \* \s
WordChar == Letter \cup Digit \cup {"_"}   \* \w (str patterns are Unicode)

IndexOf(seq, c) == CHOOSE i \in 1..Len(seq) : seq[i] = c

\* str.lower() and str.upper() of one character
LowerChar(c) ==
    IF c \in Range(UpperAll) THEN LowerAll[IndexOf(UpperAll, c)] ELSE c
UpperChar(c) ==
    IF c \in Range(LowerAll) THEN UpperAll[IndexOf(LowerAll, c)] ELSE c

lower(s) == [i \in 1..Len(s) |-> LowerChar(s[i])]
upper(s) == [i \in 1..Len(s) |-> UpperChar(s[i])]

\* str.capitalize(): first character upper-cased, the rest lower-cased
capitalize(s) ==
    [i \in 1..Len(s) |-> IF i = 1 THEN UpperChar(s[i]) ELSE LowerChar(s[i])]

\* str.replace(old, new) for a one-character old
RECURSIVE replace(_, _, _)
replace(s, old, new) ==
    IF s = <<>> THEN <<>>
    ELSE (IF Head(s) = old THEN new ELSE <<Head(s)>>)
             \o replace(Tail(s), old, new)

\* str.strip() and str.split() on whitespace
RECURSIVE lstrip(_)
lstrip(s) == IF s # <<>> /\ Head(s) \in Space THEN lstrip(Tail(s)) ELSE s
RECURSIVE rstrip(_)
rstrip(s) ==
    IF s # <<>> /\ s[Len(s)] \in Space
    THEN rstrip(SubSeq(s, 1, Len(s) - 1)) ELSE s
strip(s) == rstrip(lstrip(s))

RECURSIVE split(_)
split(s) ==
    LET t == lstrip(s)
        n == IF \E i \in 1..Len(t) : t[i] \in Space
             THEN (CHOOSE i \in 1..Len(t) :
                      t[i] \in Space /\ \A j \in 1..(i - 1) : t[j] \notin Space) - 1
             ELSE Len(t)
    IN IF t = <<>> THEN <<>>
       ELSE <<SubSeq(t, 1, n)>> \o split(SubSeq(t, n + 1, Len(t)))

\* sep.join(words) for a one-character or empty separator
RECURSIVE join(_, _)
join(sep, words) ==
    IF words = <<>> THEN <<>>
    ELSE IF Len(words) = 1 THEN words[1]
    ELSE words[1] \o sep \o join(sep, Tail(words))

\* s.split(sep)[0] and s.split(sep)[-1] for a one-character separator
split_first(s, sep) ==
    IF sep \in Range(s)
    THEN SubSeq(s, 1, (CHOOSE i \in 1..Len(s) :
                          s[i] = sep /\ \A j \in 1..(i - 1) : s[j] # sep) - 1)
    ELSE s
split_last(s, sep) ==
    IF sep \in Range(s)
    THEN SubSeq(s, (CHOOSE i \in 1..Len(s) :
                       s[i] = sep /\ \A j \in (i + 1)..Len(s) : s[j] # sep) + 1,
                Len(s))
    ELSE s

(***************************************************************************)
(* Regular expressions, with the semantics of Python's backtracking re     *)
(* module: a pattern applied at a position gives the sequence of its       *)
(* possible matches in the order the matcher tries them, so the first one  *)
(* is the match re reports.  A match state is the position reached and the *)
(* span of group 1.                                                        *)
(***************************************************************************)
Set(chars) == [op |-> "set", chars |-> chars]
Lit(c) == Set({c})
Cat(parts) == [op |-> "cat", parts |-> parts]
\* node{min,max}, node{min,} and their lazy forms
Rep(node, min, max) ==
    [op |-> "rep", node |-> node, min |-> min, max |-> max,
     unbounded |-> FALSE, lazy |-> FALSE]
RepFrom(node, min) ==
    [op |-> "rep", node |-> node, min |-> min, max |-> min,
     unbounded |-> TRUE, lazy |-> FALSE]
Lazy(rep) == [rep EXCEPT !.lazy = TRUE]
Opt(node) == Rep(node, 0, 1)
Star(node) == RepFrom(node, 0)
Plus(node) == RepFrom(node, 1)
Group(node) == [op |-> "group", node |-> node]
LookAhead(node) == [op |-> "look", node |-> node]
Bol == [op |-> "bol"]
Eol == [op |-> "eol"]
WordBoundary == [op |-> "wordb"]

InClass(c, chars, ignorecase) ==
    \/ c \in chars
    \/ ignorecase /\ (LowerChar(c) \in chars \/ UpperChar(c) \in chars)

IsWordAt(s, i) == i >= 1 /\ i <= Len(s) /\ s[i] \in WordChar

RECURSIVE Match(_, _, _, _)
RECURSIVE MatchAll(_, _, _, _)
RECURSIVE MatchCat(_, _, _, _)
RECURSIVE MatchRep(_, _, _, _, _)
RECURSIVE MatchRepAll(_, _, _, _, _)

Match(node, s, st, ic) ==
    CASE node.op = "set" ->
            IF st.pos < Len(s) /\ InClass(s[st.pos + 1], node.chars, ic)
            THEN <<[st EXCEPT !.pos = @ + 1]>> ELSE <<>>
      [] node.op = "cat" -> MatchCat(node.parts, s, <<st>>, ic)
      [] node.op = "rep" -> MatchRep(node, 0, s, st, ic)
      [] node.op = "group" ->
            LET rs == Match(node.node, s, st, ic)
            IN [i \in 1..Len(rs) |-> [rs[i] EXCEPT !.g = <<st.pos, rs[i].pos>>]]
      [] node.op = "look" ->
            IF Match(node.node, s, st, ic) # <<>> THEN <<st>> ELSE <<>>
      [] node.op = "bol" -> IF st.pos = 0 THEN <<st>> ELSE <<>>
      [] node.op = "eol" -> IF st.pos = Len(s) THEN <<st>> ELSE <<>>
      [] node.op = "wordb" ->
            IF IsWordAt(s, st.pos) # IsWordAt(s, st.pos + 1)
            THEN <<st>> ELSE <<>>

MatchAll(node, s, sts, ic) ==
    IF sts = <<>> THEN <<>>
    ELSE Match(node, s, Head(sts), ic) \o MatchAll(node, s, Tail(sts), ic)

MatchCat(parts, s, sts, ic) ==
    IF parts = <<>> \/ sts = <<>> THEN sts
    ELSE MatchCat(Tail(parts), s, MatchAll(Head(parts), s, sts, ic), ic)

\* node is a "rep" node; done counts the iterations already matched.  A
\* greedy repetition tries one more iteration before stopping, a lazy one
\* stops before trying one more.
MatchRep(node, done, s, st, ic) ==
    LET more == IF ~node.unbounded /\ done >= node.max
                THEN <<>>
                ELSE MatchRepAll(node, done + 1, s,
                                 Match(node.node, s, st, ic), ic)
        stop == IF done >= node.min THEN <<st>> ELSE <<>>
    IN IF node.lazy THEN stop \o more ELSE more \o stop

MatchRepAll(node, done, s, sts, ic) ==
    IF sts = <<>> THEN <<>>
    ELSE MatchRep(node, done, s, Head(sts), ic)
             \o MatchRepAll(node, done, s, Tail(sts), ic)

NoGroup == <<-1, -1>>

\* pattern.match at offset start: the first match in the matcher's order
MatchAt(node, s, start, ic) ==
    Match(node, s, [pos |-> start, g |-> NoGroup], ic)

\* re.search(pattern, s): the leftmost match, as
\* [found, start, end, g]; g is the span of group 1 as <<from, to>> offsets
NoMatch == [found |-> FALSE, start |-> 0, end |-> 0, g |-> NoGroup]

RECURSIVE SearchFrom(_, _, _, _)
RECURSIVE SearchStep(_, _, _, _, _)

SearchFrom(node, s, from, ic) ==
    IF from > Len(s) THEN NoMatch
    ELSE SearchStep(MatchAt(node, s, from, ic), node, s, from, ic)

SearchStep(matches, node, s, from, ic) ==
    IF matches # <<>>
    THEN [found |-> TRUE, start |-> from, end |-> matches[1].pos,
          g |-> matches[1].g]
    ELSE SearchFrom(node, s, from + 1, ic)

search(node, s, ic) == SearchFrom(node, s, 0, ic)

\* match.group() and match.group(1)
group0(s, m) == SubSeq(s, m.start + 1, m.end)
group1(s, m) == SubSeq(s, m.g[1] + 1, m.g[2])

\* re.sub(pattern, '', s) for a pattern that matches no empty string
RECURSIVE SubEmptyFrom(_, _, _, _)
RECURSIVE SubEmptyStep(_, _, _, _, _)

SubEmptyFrom(node, s, from, ic) ==
    SubEmptyStep(SearchFrom(node, s, from, ic), node, s, from, ic)

SubEmptyStep(m, node, s, from, ic) ==
    IF ~m.found \/ m.end = m.start THEN SubSeq(s, from + 1, Len(s))
    ELSE SubSeq(s, from + 1, m.start) \o SubEmptyFrom(node, s, m.end, ic)

sub_empty(node, s, ic) == SubEmptyFrom(node, s, 0, ic)

(***************************************************************************)
(* Identity Resolver: AdaptiveModuleScanner.identify_student_from_file.    *)
(* A file is the dict the storage client lists.  An optional key is a      *)
(* sequence of at most one value; a user is [emailAddress, displayName],   *)
(* each NoneText when the key is absent.                                   *)
(***************************************************************************)
Separator == Set({"_", " ", "-"})                         \* [_\s-]
LetterSet == Set(Letter)                                  \* [A-Za-zÀ-ÿ]
LetterOrSpace == Set(Letter \cup Space)                   \* [A-Za-zÀ-ÿ\s]
DigitSet == Set(Digit)                                    \* \d

\* self.email_pattern
email_pattern ==
    Cat(<<WordBoundary,
          Plus(Set(AsciiLetter \cup Digit \cup {".", "_", "%", "+", "-"})),
          Lit("@"),
          Plus(Set(AsciiLetter \cup Digit \cup {".", "-"})),
          Lit("."),
          RepFrom(Set(AsciiLetter \cup {"|"}), 2),
          WordBoundary>>)

\* [Mm][óo]?dulo?   [Mm][óo]dulo?   [Mm]odulo?
ModuloAnyAccent ==
    <<Set({"M", "m"}), Opt(Set({"ó", "o"})), Lit("d"), Lit("u"), Lit("l"), Opt(Lit("o"))>>
ModuloAccent ==
    <<Set({"M", "m"}), Set({"ó", "o"}), Lit("d"), Lit("u"), Lit("l"), Opt(Lit("o"))>>
ModuloPlain ==
    <<Set({"M", "m"}), Lit("o"), Lit("d"), Lit("u"), Lit("l"), Opt(Lit("o"))>>

\* (?:[_\s-]+\d+)?\.?[a-zA-Z]*$
TrailingIndexAndExtension ==
    <<Opt(Cat(<<Plus(Separator), Plus(DigitSet)>>)), Opt(Lit(".")),
      Star(Set(AsciiLetter)), Eol>>

\* the patterns list of _extract_name_from_filename
extract_patterns ==
    <<Cat(ModuloAnyAccent \o
          <<Star(Set(Space)), Plus(DigitSet), Plus(Separator),
            Group(Cat(<<Plus(LetterSet),
                        Opt(Cat(<<Set(AsciiUpper), Plus(Set(AsciiLower))>>))>>))>>),
      Cat(ModuloAnyAccent \o
          <<Star(Separator), Plus(DigitSet), Plus(Separator),
            Group(Plus(LetterSet))>>)>>

\* re.sub(r'([a-z])([A-Z])', r'\1 \2', name)
RECURSIVE camel_to_space(_)
camel_to_space(name) ==
    IF Len(name) < 2 THEN name
    ELSE IF name[1] \in AsciiLower /\ name[2] \in AsciiUpper
    THEN <<name[1], " ", name[2]>> \o camel_to_space(SubSeq(name, 3, Len(name)))
    ELSE <<name[1]>> \o camel_to_space(Tail(name))

\* ' '.join(word.capitalize() for word in name.split())
capitalize_words(name) ==
    LET words == split(name)
    IN join(<<" ">>, [i \in 1..Len(words) |-> capitalize(words[i])])

\* name.replace('_', ' ').replace('-', ' ').strip()
clean_separators(name) == strip(replace(replace(name, "_", <<" ">>), "-", <<" ">>))

NoName == [found |-> FALSE, name |-> <<>>]

RECURSIVE ExtractWith(_, _)
RECURSIVE ExtractStep(_, _, _)

ExtractWith(patterns, filename) ==
    IF patterns = <<>> THEN NoName
    ELSE ExtractStep(search(Head(patterns), filename, TRUE), patterns, filename)

ExtractStep(m, patterns, filename) ==
    IF m.found
    THEN [found |-> TRUE,
          name |-> capitalize_words(
                       clean_separators(camel_to_space(group1(filename, m))))]
    ELSE ExtractWith(Tail(patterns), filename)

_extract_name_from_filename(filename) == ExtractWith(extract_patterns, filename)

\* the name_patterns list of identify_student_from_file
name_patterns ==
    <<Cat(ModuloAccent \o
          <<Star(Set(Space)), Plus(DigitSet), Plus(Separator),
            Group(Cat(<<RepFrom(LetterSet, 3), Lazy(Star(LetterOrSpace))>>))>>
          \o TrailingIndexAndExtension),
      Cat(ModuloPlain \o
          <<Star(Set(Space)), Plus(DigitSet), Plus(Separator),
            Group(Cat(<<RepFrom(LetterSet, 3), Lazy(Star(LetterOrSpace))>>))>>
          \o TrailingIndexAndExtension),
      Cat(ModuloAnyAccent \o
          <<Star(Set(Space)), Plus(DigitSet), Plus(Separator),
            Group(Cat(<<Plus(LetterSet),
                        Rep(Cat(<<Set({"_", " "}), Plus(LetterSet)>>), 1, 3)>>)),
            Opt(Cat(<<Plus(Separator), Plus(DigitSet)>>))>>),
      Cat(ModuloAnyAccent \o
          <<Star(Set(Space)), Plus(DigitSet), Plus(Separator),
            Group(Lazy(RepFrom(LetterOrSpace, 4)))>>
          \o TrailingIndexAndExtension),
      Cat(<<Bol, Group(Cat(<<Plus(LetterSet), Plus(Separator), Plus(LetterSet)>>))>>),
      Cat(<<Bol, Group(Lazy(RepFrom(LetterOrSpace, 3))), Set({"-", "_", "."})>>),
      Cat(<<Group(Lazy(RepFrom(LetterOrSpace, 3))), LookAhead(DigitSet)>>)>>

\* re.sub(r'^[Mm][óo]?dulo?\s*\d+[_\s-]*', '', name, flags=re.IGNORECASE)
module_prefix_pattern ==
    Cat(<<Bol>> \o ModuloAnyAccent \o
        <<Star(Set(Space)), Plus(DigitSet), Star(Separator)>>)

\* re.sub(r'[_\s-]*\d+[_\s-]*$', '', name)
trailing_number_pattern ==
    Cat(<<Star(Separator), Plus(DigitSet), Star(Separator), Eol>>)

palabras_invalidas ==
    <<<<"m", "o", "d", "u", "l", "o">>, <<"m", "ó", "d", "u", "l", "o">>,
      <<"d", "u", "l", "o">>,
      <<"e", "j", "e", "r", "c", "i", "c", "i", "o">>,
      <<"t", "a", "r", "e", "a">>, <<"t", "e", "s", "t">>>>

\* the three words of the containment test of line 158
palabras_contenidas == SubSeq(palabras_invalidas, 1, 3)

PlaceholderDomain ==
    <<"@", "e", "x", "t", "r", "a", "c", "t", "e", "d", ".", "t", "e", "m", "p">>

\* the candidate of one name pattern, cleaned (lines 145-150)
candidate_name(filename, m) ==
    strip(sub_empty(trailing_number_pattern,
                    sub_empty(module_prefix_pattern,
                              clean_separators(group1(filename, m)), TRUE),
                    FALSE))

\* a variant of the validity test that knows the module words only
valid_unless_module(name, name_lower) ==
    /\ Len(name) > 2
    /\ ~\E i \in 1..Len(palabras_contenidas) :
            Contains(name_lower, palabras_contenidas[i])

\* the validity test of lines 156-159, on name.lower()
valid_lower(name, name_lower) ==
    /\ Len(name) > 2
    /\ ~\E i \in 1..Len(palabras_invalidas) : palabras_invalidas[i] = name_lower
    /\ ~\E i \in 1..Len(palabras_contenidas) :
            Contains(name_lower, palabras_contenidas[i])
    /\ name_lower \notin Range(palabras_invalidas)

valid_name(name) == valid_lower(name, lower(name))

\* lines 162-167: the returned name and the synthesized email
normalized_name(name) == join(<<" ">>, split(name))

RECURSIVE replace_each(_, _)
replace_each(s, pairs) ==
    IF pairs = <<>> THEN s
    ELSE replace_each(replace(s, pairs[1][1], <<pairs[1][2]>>), Tail(pairs))

\* a variant of the synthesis that leaves the accented letters alone
placeholder_email_accented(name) ==
    replace(lower(name), " ", <<".">>) \o PlaceholderDomain

placeholder_email(name) ==
    replace_each(lower(name),
                 << <<" ", ".">>, <<"ñ", "n">>, <<"á", "a">>, <<"é", "e">>,
                    <<"í", "i">>, <<"ó", "o">>, <<"ú", "u">> >>)
        \o PlaceholderDomain

NotIdentified == [identified |-> FALSE, name |-> <<>>, email |-> <<>>, step |-> 0]

NameOnly(name) ==
    [identified |-> TRUE, name |-> name, email |-> placeholder_email(name),
     step |-> 4]

RECURSIVE NameFromPatterns(_, _)
RECURSIVE NameFromMatch(_, _, _)
RECURSIVE NameFromCandidate(_, _, _)

NameFromPatterns(patterns, filename) ==
    IF patterns = <<>> THEN NotIdentified
    ELSE NameFromMatch(search(Head(patterns), filename, TRUE), patterns, filename)

NameFromMatch(m, patterns, filename) ==
    IF m.found
    THEN NameFromCandidate(candidate_name(filename, m), patterns, filename)
    ELSE NameFromPatterns(Tail(patterns), filename)

NameFromCandidate(name, patterns, filename) ==
    IF valid_name(name) THEN NameOnly(normalized_name(name))
    ELSE NameFromPatterns(Tail(patterns), filename)

\* dict.get(key, '') of a user
GetOrEmpty(value) == IF value = NoneText THEN <<>> ELSE value

\* email and '@' in email
valid_email(email) == email # <<>> /\ "@" \in Range(email)

\* lines 84-88 and 101-105: the name of a metadata identity
PreferredName(better_name, display_name, email) ==
    IF better_name.found /\ better_name.name # <<>> /\ Len(better_name.name) > 3
    THEN better_name.name
    ELSE IF display_name # <<>> THEN display_name
    ELSE split_first(email, "@")

metadata_name(filename, user) ==
    PreferredName(_extract_name_from_filename(filename),
                  GetOrEmpty(user.displayName), GetOrEmpty(user.emailAddress))

step1_applies(file_data) ==
    /\ file_data.lastModifyingUser # <<>>
    /\ valid_email(GetOrEmpty(file_data.lastModifyingUser[1].emailAddress))

\* a variant of the test of step 2 that never looks at the owners
step2_skipped(file_data) == FALSE

step2_applies(file_data) ==
    /\ file_data.owners # <<>>
    /\ valid_email(GetOrEmpty(file_data.owners[1].emailAddress))

MetadataIdentity(filename, user, step) ==
    [identified |-> TRUE, name |-> metadata_name(filename, user),
     email |-> user.emailAddress, step |-> step]

\* lines 110-171: the file name rules
FilenameIdentity(filename, email_match) ==
    IF email_match.found
    THEN [identified |-> TRUE,
          name |-> split_first(group0(filename, email_match), "@"),
          email |-> group0(filename, email_match), step |-> 3]
    ELSE NameFromPatterns(name_patterns, filename)

\* a variant of the cascade that looks for an email in the file name first
identify_filename_first(file_data) ==
    IF search(email_pattern, file_data.name, FALSE).found
    THEN FilenameIdentity(file_data.name,
                          search(email_pattern, file_data.name, FALSE))
    ELSE IF step1_applies(file_data)
    THEN MetadataIdentity(file_data.name, file_data.lastModifyingUser[1], 1)
    ELSE IF step2_applies(file_data)
    THEN MetadataIdentity(file_data.name, file_data.owners[1], 2)
    ELSE NameFromPatterns(name_patterns, file_data.name)

identify_student_from_file(file_data) ==
    IF step1_applies(file_data)
    THEN MetadataIdentity(file_data.name, file_data.lastModifyingUser[1], 1)
    ELSE IF step2_applies(file_data)
    THEN MetadataIdentity(file_data.name, file_data.owners[1], 2)
    ELSE FilenameIdentity(file_data.name,
                          search(email_pattern, file_data.name, FALSE))

(***************************************************************************)
(* Schema Catalog: the columns _discover_schema finds.  DeployedSchema is  *)
(* the layout the code addresses by name.                                  *)
(***************************************************************************)
DeployedSchema ==
    [modules |-> <<"id", "name", "description", "code", "drive_folder_id",
                   "order_index", "drive_folder_url">>,
     students |-> <<"id", "full_name", "email", "updated_at">>,
     submissions |-> <<"id", "module_id", "student_id", "file_id", "filename",
                       "mime_type", "size_bytes", "size_mb", "file_extension",
                       "drive_url", "created_time", "modified_time",
                       "detected_at", "uploaded_by_email", "owner_email">>,
     sync_logs |-> <<"id", "sync_type", "status", "started_at", "completed_at",
                     "files_processed", "errors", "error_details">>]

\* self.table_schemas.get(table, {}).get('column_names', [])
column_names(schemas, table) ==
    IF table \in DOMAIN schemas THEN schemas[table] ELSE <<>>

(***************************************************************************)
(* Statement Builder.  data is the dict handed to _build_insert_query, as  *)
(* the sequence of its <<key, value>> items in insertion order.            *)
(***************************************************************************)
\* a variant of the filter that keeps the items whose value is None
RECURSIVE FilterColumns(_, _)
FilterColumns(available_columns, data) ==
    IF data = <<>> THEN <<>>
    ELSE IF Head(data)[1] \in Range(available_columns)
    THEN <<Head(data)>> \o FilterColumns(available_columns, Tail(data))
    ELSE FilterColumns(available_columns, Tail(data))

RECURSIVE FilterItems(_, _)
FilterItems(available_columns, data) ==
    IF data = <<>> THEN <<>>
    ELSE LET item == Head(data)
             rest == FilterItems(available_columns, Tail(data))
         IN IF item[1] \in Range(available_columns) /\ ~IsNone(item[1], item[2])
            THEN <<item>> \o rest
            ELSE rest

NoConflictClause == [target |-> "", set |-> <<>>]

Statement(table_name, kept) ==
    [raised |-> kept = <<>>,
     table |-> table_name,
     columns |-> [i \in 1..Len(kept) |-> kept[i][1]],
     values |-> [i \in 1..Len(kept) |-> kept[i][2]],
     conflict |-> NoConflictClause]

build_insert_query(schemas, table_name, data) ==
    IF table_name \notin DOMAIN schemas
    THEN [raised |-> TRUE, table |-> table_name, columns |-> <<>>,
          values |-> <<>>, conflict |-> NoConflictClause]
    ELSE Statement(table_name, FilterItems(schemas[table_name], data))

\* query.replace('RETURNING id', 'ON CONFLICT (...) DO UPDATE SET ... RETURNING id')
WithConflict(stmt, applies, clause) ==
    IF applies /\ ~stmt.raised THEN [stmt EXCEPT !.conflict = clause] ELSE stmt

(***************************************************************************)
(* The store.  A row is a function from the columns of its table to        *)
(* values.  The unique indexes are the ones the ON CONFLICT clauses of the *)
(* code name as their targets.                                             *)
(***************************************************************************)
Tables == {"modules", "students", "submissions", "sync_logs"}

UniqueColumn ==
    [modules |-> "", students |-> "email", submissions |-> "file_id",
     sync_logs |-> ""]

EmptyDb ==
    [modules |-> {}, students |-> {}, submissions |-> {}, sync_logs |-> {}]

NextId(rows) ==
    IF rows = {} THEN 1
    ELSE 1 + (CHOOSE m \in {r["id"] : r \in rows} :
                  \A r \in rows : r["id"] <= m)

\* the columns a statement names
StatementColumns(stmt) ==
    Range(stmt.columns)
        \cup (IF stmt.conflict.target = "" THEN {} ELSE {stmt.conflict.target})
        \cup {stmt.conflict.set[i][1] : i \in 1..Len(stmt.conflict.set)}

ValueOf(stmt, column, default) ==
    IF column \in Range(stmt.columns)
    THEN stmt.values[CHOOSE i \in 1..Len(stmt.columns) : stmt.columns[i] = column]
    ELSE default

Raised(store) ==
    [raised |-> TRUE, store |-> store, id |-> NoneInt, inserted |-> FALSE]

\* the call raised before it asked for a connection
NotConnected(store) ==
    [raised |-> TRUE, store |-> store, id |-> NoneInt, inserted |-> FALSE,
     conn |-> <<>>]

\* the row an INSERT proposes: the named columns, the defaults elsewhere
ProposedRow(cols, stmt, new_id) ==
    [c \in cols |-> IF c = "id" THEN ValueOf(stmt, c, new_id)
                    ELSE ValueOf(stmt, c, NoneOf(c))]

\* the rows that hold the proposed value of the table's unique column
Clash(cols, rows, unique, proposed) ==
    IF unique \in cols /\ ~IsNone(unique, proposed[unique])
    THEN {r \in rows : r[unique] = proposed[unique]}
    ELSE {}

\* DO UPDATE SET column = EXCLUDED.column | NOW()
SetItem(set, c) == set[CHOOSE i \in 1..Len(set) : set[i][1] = c]

UpdatedRow(old, set, proposed, now) ==
    [c \in DOMAIN old |->
        IF \E i \in 1..Len(set) : set[i][1] = c
        THEN IF SetItem(set, c)[2] = "NOW" THEN now ELSE proposed[c]
        ELSE old[c]]

Replaced(store, table, old, new) ==
    [raised |-> FALSE,
     store |-> [store EXCEPT ![table] = (@ \ {old}) \cup {new}],
     id |-> old["id"], inserted |-> FALSE]

ResolveInsert(store, stmt, proposed, clash, now) ==
    IF clash = {}
    THEN [raised |-> FALSE,
          store |-> [store EXCEPT ![stmt.table] = @ \cup {proposed}],
          id |-> proposed["id"], inserted |-> TRUE]
    ELSE IF stmt.conflict.target # UniqueColumn[stmt.table]
    THEN Raised(store)         \* unique violation
    ELSE Replaced(store, stmt.table, CHOOSE r \in clash : TRUE,
                  UpdatedRow(CHOOSE r \in clash : TRUE, stmt.conflict.set,
                             proposed, now))

InsertRow(cols, store, stmt, proposed, now) ==
    ResolveInsert(store, stmt, proposed,
                  Clash(cols, store[stmt.table], UniqueColumn[stmt.table], proposed),
                  now)

\* cur.execute(query, values); cur.fetchone()['id'] for an INSERT ... RETURNING id
\* with an optional ON CONFLICT (target) DO UPDATE SET ...
execute_insert(schemas, store, stmt, now) ==
    IF stmt.raised
    THEN NotConnected(store)   \* _build_insert_query raised ValueError
    ELSE IF ~(StatementColumns(stmt) \subseteq Range(column_names(schemas, stmt.table)))
    THEN Raised(store)         \* undefined column
    ELSE InsertRow(Range(column_names(schemas, stmt.table)), store, stmt,
                   ProposedRow(Range(column_names(schemas, stmt.table)), stmt,
                               NextId(store[stmt.table])),
                   now)

(***************************************************************************)
(* Transactions: get_connection / get_cursor.  body is what the statements *)
(* inside the with block did to a private copy of the store; fault says    *)
(* that psycopg2 raised (connect, execute or commit).  Commit on normal    *)
(* exit, rollback and re-raise on an exception.                            *)
(***************************************************************************)
\* what the connection of one with block is asked to do (lines 69-77)
connection_events(raised) ==
    <<"connect", IF raised THEN "rollback" ELSE "commit", "close">>

\* a variant of the context manager whose connection commits every statement
get_connection_autocommit(store, body, fault) ==
    IF "conn" \in DOMAIN body THEN body
    ELSE [k \in DOMAIN body \cup {"conn"} |->
             IF k = "conn" THEN connection_events(fault \/ body.raised)
             ELSE IF k = "raised" THEN fault \/ body.raised
             ELSE body[k]]

get_connection(store, body, fault) ==
    IF "conn" \in DOMAIN body THEN body
    ELSE IF fault \/ body.raised
    THEN [k \in DOMAIN body \cup {"conn"} |->
             IF k = "conn" THEN connection_events(TRUE)
             ELSE IF k = "raised" THEN TRUE
             ELSE IF k = "store" THEN store      \* conn.rollback()
             ELSE IF k = "id" THEN NoneInt       \* nothing is returned
             ELSE IF k = "inserted" THEN FALSE
             ELSE body[k]]
    ELSE [k \in DOMAIN body \cup {"conn"} |->
             IF k = "conn" THEN connection_events(FALSE) ELSE body[k]]

(***************************************************************************)
(* Entity Repository: modules                                              *)
(***************************************************************************)
Collation ==
    <<" ", "-", ".", "_", "0", "1", "2", "3", "4", "5", "6", "7", "8", "9">>
        \o UpperAll \o LowerAll

RECURSIVE TextLessEq(_, _)
TextLessEq(a, b) ==
    IF a = <<>> THEN TRUE
    ELSE IF b = <<>> THEN FALSE
    ELSE IF Head(a) = Head(b) THEN TextLessEq(Tail(a), Tail(b))
    ELSE IndexOf(Collation, Head(a)) < IndexOf(Collation, Head(b))

\* ORDER BY name (rows of equal name in id order)
RECURSIVE OrderByName(_)
OrderByName(rows) ==
    IF rows = {} THEN <<>>
    ELSE LET first == CHOOSE r \in rows : \A q \in rows :
                          \/ r = q
                          \/ (r["name"] # q["name"] /\ TextLessEq(r["name"], q["name"]))
                          \/ (r["name"] = q["name"] /\ r["id"] < q["id"])
         IN <<first>> \o OrderByName(rows \ {first})

get_all_modules(schemas, store, fault) ==
    LET cols == Range(column_names(schemas, "modules"))
    IN IF fault \/ "name" \notin cols
       THEN [raised |-> TRUE, rows |-> <<>>]
       ELSE [raised |-> FALSE, rows |-> OrderByName(store.modules)]

\* a variant of get_module_by_drive_folder that never finds the row
module_never_found(schemas, store, drive_folder_id, fault) ==
    [raised |-> fault, found |-> FALSE, id |-> NoneInt]

FirstRow(hits) ==
    IF hits = {} THEN [raised |-> FALSE, found |-> FALSE, id |-> NoneInt]
    ELSE [raised |-> FALSE, found |-> TRUE, id |-> (CHOOSE r \in hits : TRUE)["id"]]

get_module_by_drive_folder(schemas, store, drive_folder_id, fault) ==
    IF fault \/ "drive_folder_id" \notin Range(column_names(schemas, "modules"))
    THEN [raised |-> TRUE, found |-> FALSE, id |-> NoneInt]
    ELSE FirstRow({r \in store.modules : r["drive_folder_id"] = drive_folder_id})

\* r'[Mm]odulo?\s*(\d+)'
module_number_pattern ==
    Cat(<<Set({"M", "m"}), Lit("o"), Lit("d"), Lit("u"), Lit("l"), Opt(Lit("o")),
          Star(Set(Space)), Group(Plus(DigitSet))>>)

special_codes ==
    << <<<<"c", "o", "r", "r", "e", "c", "c", "i", "o", "n", "e", "s">>, <<"C", "O", "R", "R">>>>,
       <<<<"d", "i", "b", "u", "j", "o", "s">>, <<"D", "R", "A", "W">>>>,
       <<<<"l", "i", "v", "e", "s">>, <<"L", "I", "V", "E">>>>,
       <<<<"e", "v", "a", "l", "u", "a", "c", "i", "o", "n">>, <<"E", "V", "A", "L">>>>,
       <<<<"a", "u", "t", "o", "e", "v", "a", "l", "u", "a", "c", "i", "o", "n">>, <<"A", "U", "T", "O">>>>,
       <<<<"e", "x", "a", "m", "e", "n">>, <<"E", "X", "A", "M">>>>,
       <<<<"t", "a", "r", "e", "a">>, <<"T", "A", "S", "K">>>> >>

\* str.zfill(2)
zfill2(digits) == IF Len(digits) < 2 THEN <<"0">> \o digits ELSE digits

FirstSpecialCode(hits) ==
    special_codes[CHOOSE i \in hits : \A j \in hits : i <= j][2]

FallbackCode(clean_name) ==
    IF clean_name # <<>> THEN upper(Take(clean_name, 4))
    ELSE <<"M", "O", "D", "0">>

KeywordCode(name, hits) ==
    IF hits # {} THEN FirstSpecialCode(hits)
    ELSE FallbackCode(SelectSeq(name, LAMBDA c : c \in AsciiLetter))

CodeFor(name, name_lower, module_match) ==
    IF module_match.found
    THEN <<"M", "O", "D">> \o zfill2(group1(name, module_match))
    ELSE KeywordCode(name, {i \in 1..Len(special_codes) :
                                Contains(name_lower, special_codes[i][1])})

_generate_module_code(name) ==
    CodeFor(name, lower(name), search(module_number_pattern, name, FALSE))

\* "https://drive.google.com/drive/folders/"
FolderUrlPrefix ==
    <<"h", "t", "t", "p", "s", ":", "/", "/", "d", "r", "i", "v", "e", ".", "g", "o", "o", "g", "l", "e", ".", "c", "o", "m", "/", "d", "r", "i", "v", "e", "/", "f", "o", "l", "d", "e", "r", "s", "/">>

MaxOf(values) ==
    IF values = {} THEN 0 ELSE CHOOSE m \in values : \A v \in values : v <= m

\* SELECT COALESCE(MAX(order_index), 0) + 1 as next_order FROM modules
next_order(store) ==
    1 + MaxOf({r["order_index"] : r \in store.modules} \ {NoneInt})

module_data(store, name, drive_folder_id, description) ==
    << <<"name", name>>,
       <<"description", description>>,
       <<"code", _generate_module_code(name)>>,
       <<"drive_folder_id", drive_folder_id>>,
       <<"order_index", next_order(store)>>,
       <<"drive_folder_url", FolderUrlPrefix \o drive_folder_id>> >>

create_module(schemas, store, name, drive_folder_id, description, now, fault) ==
    IF "order_index" \notin Range(column_names(schemas, "modules"))
    THEN Raised(store)
    ELSE get_connection(
             store,
             execute_insert(schemas, store,
                            build_insert_query(schemas, "modules",
                                module_data(store, name, drive_folder_id,
                                            description)),
                            now),
             fault)

(***************************************************************************)
(* Entity Repository: students                                             *)
(***************************************************************************)
get_student_by_email(schemas, store, email, fault) ==
    LET cols == Range(column_names(schemas, "students"))
    IN IF fault \/ "email" \notin cols
       THEN [raised |-> TRUE, found |-> FALSE]
       ELSE [raised |-> FALSE,
             found |-> \E r \in store.students : r["email"] = email]

\* a variant of the clause that only stamps the row
student_upsert_stamp ==
    [target |-> "email", set |-> << <<"updated_at", "NOW">> >>]

student_upsert_clause ==
    [target |-> "email",
     set |-> << <<"full_name", "EXCLUDED">>, <<"updated_at", "NOW">> >>]

\* lines 206-224: the complete statement of create_student
student_statement(schemas, name, email) ==
    WithConflict(
        build_insert_query(schemas, "students",
                           << <<"full_name", name>>, <<"email", email>> >>),
        /\ "email" \in Range(column_names(schemas, "students"))
        /\ email # NoneText
        /\ valid_email(email),
        student_upsert_clause)

create_student(schemas, store, name, email, now, fault) ==
    get_connection(
        store,
        execute_insert(schemas, store, student_statement(schemas, name, email),
                       now),
        fault)

(***************************************************************************)
(* Entity Repository: submissions                                          *)
(***************************************************************************)
DigitValue(c) ==
    CASE c = "0" -> 0 [] c = "1" -> 1 [] c = "2" -> 2 [] c = "3" -> 3
      [] c = "4" -> 4 [] c = "5" -> 5 [] c = "6" -> 6 [] c = "7" -> 7
      [] c = "8" -> 8 [] c = "9" -> 9

\* int(str) of a decimal numeral
RECURSIVE ParseInt(_)
ParseInt(digits) ==
    IF digits = <<>> THEN 0
    ELSE 10 * ParseInt(SubSeq(digits, 1, Len(digits) - 1))
             + DigitValue(digits[Len(digits)])

IsNumeral(text) == text # <<>> /\ Range(text) \subseteq Digit

\* _parse_drive_timestamp: a remote timestamp is [given, wellformed, instant];
\* given is FALSE when the key is absent or the string empty
_parse_drive_timestamp(timestamp_str) ==
    IF ~timestamp_str.given THEN NoneInt
    ELSE IF timestamp_str.wellformed THEN timestamp_str.instant
    ELSE NoneInt

\* round(size_bytes / (1024 * 1024), 2), in hundredths of a megabyte
size_mb(size_bytes) ==
    LET scaled == size_bytes * 100
        unit == 1024 * 1024
        q == scaled \div unit
        r == scaled % unit
    IN IF 2 * r > unit \/ (2 * r = unit /\ q % 2 = 1) THEN q + 1 ELSE q

file_extension(filename) ==
    IF "." \in Range(filename)
    THEN LET extension == lower(split_last(filename, "."))
         IN IF extension # <<>> THEN Take(extension, 50)
            ELSE <<"u", "n", "k", "n", "o", "w", "n">>
    ELSE <<"n", "o", "e", "x", "t">>

\* "https://drive.google.com/file/d/" and "/view"
FileUrlPrefix ==
    <<"h", "t", "t", "p", "s", ":", "/", "/", "d", "r", "i", "v", "e", ".", "g", "o", "o", "g", "l", "e", ".", "c", "o", "m", "/", "f", "i", "l", "e", "/", "d", "/">>
FileUrlSuffix == <<"/", "v", "i", "e", "w">>

\* int(file_data.get('size', 0))
size_of(file_data) ==
    IF file_data.size = NoneText THEN 0 ELSE ParseInt(file_data.size)

DerivedFields(file_data, size_bytes) ==
    (IF size_bytes # 0 THEN << <<"size_mb", size_mb(size_bytes)>> >> ELSE <<>>)
    \o (IF file_data.name # NoneText /\ file_data.name # <<>>
        THEN << <<"file_extension", file_extension(file_data.name)>> >>
        ELSE <<>>)

\* the drive_mapping dict of create_submission, in insertion order
drive_mapping(file_data, now) ==
    << <<"file_id", file_data.id>>,
       <<"filename", file_data.name>>,
       <<"mime_type", file_data.mimeType>>,
       <<"size_bytes", size_of(file_data)>>,
       <<"drive_url", FileUrlPrefix \o file_data.id \o FileUrlSuffix>>,
       <<"created_time", _parse_drive_timestamp(file_data.createdTime)>>,
       <<"modified_time", _parse_drive_timestamp(file_data.modifiedTime)>>,
       <<"detected_at", now>> >>
    \o (IF file_data.lastModifyingUser # <<>>
        THEN << <<"uploaded_by_email", file_data.lastModifyingUser[1].emailAddress>> >>
        ELSE <<>>)
    \o (IF file_data.owners # <<>>
        THEN << <<"owner_email", file_data.owners[1].emailAddress>> >>
        ELSE <<>>)
    \o DerivedFields(file_data, size_of(file_data))

\* a variant of the clause that also overwrites the references
submission_upsert_all ==
    [target |-> "file_id",
     set |-> << <<"module_id", "EXCLUDED">>, <<"student_id", "EXCLUDED">>,
                <<"filename", "EXCLUDED">>, <<"size_bytes", "EXCLUDED">>,
                <<"modified_time", "EXCLUDED">>, <<"detected_at", "NOW">> >>]

submission_upsert_clause ==
    [target |-> "file_id",
     set |-> << <<"filename", "EXCLUDED">>, <<"size_bytes", "EXCLUDED">>,
                <<"modified_time", "EXCLUDED">>, <<"detected_at", "NOW">> >>]

\* lines 243-244 and 284-288
submission_data(submission_columns, module_id, student_id, mapping) ==
    << <<"module_id", module_id>>, <<"student_id", student_id>> >>
        \o SelectSeq(mapping, LAMBDA item : item[1] \in submission_columns)

\* lines 284-301: the complete statement of create_submission
submission_statement(schemas, module_id, student_id, file_data, now) ==
    WithConflict(
        build_insert_query(
            schemas, "submissions",
            submission_data(Range(column_names(schemas, "submissions")),
                            module_id, student_id,
                            drive_mapping(file_data, now))),
        "file_id" \in Range(column_names(schemas, "submissions")),
        submission_upsert_clause)

create_submission(schemas, store, module_id, student_id, file_data, now, fault) ==
    IF file_data.size # NoneText /\ ~IsNumeral(file_data.size)
    THEN NotConnected(store)   \* int() raises ValueError
    ELSE get_connection(
             store,
             execute_insert(
                 schemas, store,
                 submission_statement(schemas, module_id, student_id, file_data,
                                      now),
                 now),
             fault)

(***************************************************************************)
(* Entity Repository: sync logs                                            *)
(***************************************************************************)
create_sync_log(schemas, store, sync_type, now, fault) ==
    get_connection(
        store,
        execute_insert(
            schemas, store,
            build_insert_query(schemas, "sync_logs",
                               << <<"sync_type", sync_type>>,
                                  <<"status", "running">>,
                                  <<"started_at", now>> >>),
            now),
        fault)

\* the optional_fields dict of update_sync_log
optional_fields(status, files_processed, errors, error_details, now) ==
    << <<"files_processed", files_processed>>,
       <<"errors", errors>>,
       <<"error_details", error_details>>,
       <<"completed_at", IF status \in {"completed", "failed"} THEN now ELSE NoneInt>> >>

\* UPDATE sync_logs SET <update_fields> WHERE id = %s
AssignedRow(r, update_fields) ==
    [c \in DOMAIN r |->
        IF \E i \in 1..Len(update_fields) : update_fields[i][1] = c
        THEN SetItem(update_fields, c)[2]
        ELSE r[c]]

\* a variant of the UPDATE without its WHERE clause
execute_update_all(store, id, update_fields) ==
    [raised |-> FALSE,
     store |-> [store EXCEPT !.sync_logs =
                   {AssignedRow(r, update_fields) : r \in @}]]

execute_update(store, id, update_fields) ==
    [raised |-> FALSE,
     store |-> [store EXCEPT !.sync_logs =
                   {IF r["id"] = id THEN AssignedRow(r, update_fields) ELSE r :
                        r \in @}]]

update_sync_log(schemas, store, id, status, files_processed, errors, error_details, now, fault) ==
    IF ~({"status", "id"} \subseteq Range(column_names(schemas, "sync_logs")))
    THEN [raised |-> TRUE, store |-> store]
    ELSE get_connection(
             store,
             execute_update(
                 store, id,
                 << <<"status", status>> >>
                     \o FilterItems(column_names(schemas, "sync_logs"),
                                    optional_fields(status, files_processed, errors,
                                                    error_details, now))),
             fault)

(***************************************************************************)
(* The storage collaborator: what GoogleDriveClient.list_folders_in_root   *)
(* and list_files_in_folder return.  The remote tree does not change       *)
(* during a behaviour.                                                     *)
(***************************************************************************)
NoTimestamp == [given |-> FALSE, wellformed |-> FALSE, instant |-> 0]
Timestamp(t) == [given |-> TRUE, wellformed |-> TRUE, instant |-> t]
User(email, display) == [emailAddress |-> email, displayName |-> display]

FolderA == <<"f", "A">>
FolderB == <<"f", "B">>

DriveFolders ==
    << [id |-> FolderA, name |-> <<"M", "o", "d", "u", "l", "o", " ", "7">>],
       [id |-> FolderB, name |-> <<"L", "i", "v", "e", "s">>] >>

Jpeg == <<"i", "m", "a", "g", "e", "/", "j", "p", "e", "g">>

\* lastModifyingUser u@x.io, and another address inside the file name
FileMeta ==
    [id |-> <<"1">>, name |-> <<"a", "@", "b", ".", "c", "o", ".", "j", "p", "g">>,
     mimeType |-> Jpeg, size |-> <<"7">>,
     createdTime |-> Timestamp(1), modifiedTime |-> Timestamp(1),
     lastModifyingUser |-> <<User(<<"u", "@", "x", ".", "i", "o">>, <<"U", "m", "a">>)>>,
     owners |-> <<>>]

\* no metadata, a name in the file name
FileNamed ==
    [id |-> <<"2">>,
     name |-> <<"M", "o", "d", "u", "l", "o", "7", "_", "A", "n", "a", "_", "0", "1", ".", "j", "p", "g">>,
     mimeType |-> Jpeg, size |-> NoneText,
     createdTime |-> NoTimestamp, modifiedTime |-> NoTimestamp,
     lastModifyingUser |-> <<>>, owners |-> <<>>]

\* no metadata, a module prefix and an index only
FileAnonymous ==
    [id |-> <<"3">>,
     name |-> <<"M", "o", "d", "u", "l", "o", "7", "_", "0", "1", ".", "j", "p", "g">>,
     mimeType |-> Jpeg, size |-> <<"9">>,
     createdTime |-> Timestamp(1), modifiedTime |-> Timestamp(1),
     lastModifyingUser |-> <<>>, owners |-> <<>>]

\* the owner is the uploader of FileMeta
FileOwned ==
    [id |-> <<"4">>, name |-> <<"x", ".", "p", "n", "g">>,
     mimeType |-> Jpeg, size |-> <<"5">>,
     createdTime |-> Timestamp(1), modifiedTime |-> Timestamp(1),
     lastModifyingUser |-> <<User(NoneText, <<"U", "m", "a">>)>>,
     owners |-> <<User(<<"u", "@", "x", ".", "i", "o">>, NoneText)>>]

list_files_in_folder(folder_id) ==
    IF folder_id = FolderA THEN <<FileMeta, FileNamed>>
    ELSE IF folder_id = FolderB THEN <<FileAnonymous, FileOwned>>
    ELSE <<>>

(***************************************************************************)
(* Scan Orchestrator: AdaptiveModuleScanner                                *)
(***************************************************************************)
\* "Módulo desde Google Drive: "
SyncDescription ==
    <<"M", "ó", "d", "u", "l", "o", " ", "d", "e", "s", "d", "e", " ", "G", "o", "o", "g", "l", "e", " ", "D", "r", "i", "v", "e", ":", " ">>

NoScan == [module_id |-> NoneInt, files |-> <<>>, files_found |-> 0,
           files_processed |-> 0, students_created |-> 0,
           submissions_created |-> 0, submissions_updated |-> 0,
           errors |-> <<>>]

NoSyncResults == [has_error |-> FALSE, has_errors |-> FALSE, errors |-> <<>>,
                  modules_processed |-> 0, modules_created |-> 0,
                  modules_existing |-> 0]

NoFullResults == [total_modules |-> 0, modules_scanned |-> 0, total_files |-> 0,
                  total_submissions |-> 0, total_students |-> 0,
                  errors |-> <<>>, module_details |-> <<>>]

\* what full_adaptive_scan gave its caller: outcome is "none" while no run
\* has ended, "returned" with the keys of the dict, or "raised"
NoReturn == [outcome |-> "none", keys |-> {}, errors |-> <<>>,
             total_students |-> 0, total_submissions |-> 0]

NoCall == [op |-> "none"]

\* what one run did, for the record: file_errors counts the files whose
\* student or submission write was rejected, unresolved the files without an
\* identity, module_errors the modules whose listing failed, sync_errors the
\* folders that sync_modules_to_db could not register
NoRunHist == [file_errors |-> 0, unresolved |-> 0, module_errors |-> 0,
              sync_errors |-> 0, listing_failed |-> FALSE,
              log_created |-> FALSE, status_writes |-> 0, calls_raised |-> 0,
              secondary_failed |-> FALSE,
              students_inserted |-> 0, submissions_inserted |-> 0,
              modules_inserted |-> 0, order_indexes |-> <<>>]

\* the collaborator calls of one step that may raise: at most one per step,
\* while the fault budget lasts
Faults(sites) == IF faults < MaxFaults THEN {"none"} \cup sites ELSE {"none"}
Spend(fault) == IF fault = "none" THEN faults ELSE faults + 1

RowCounts(store) ==
    [modules |-> Cardinality(store.modules),
     students |-> Cardinality(store.students),
     submissions |-> Cardinality(store.submissions)]

Init ==
    /\ table_schemas = DeployedSchema
    /\ db = EmptyDb
    /\ clock = 0
    /\ pc = "idle"
    /\ run = 0
    /\ faults = 0
    /\ sync_id = NoneInt
    /\ sync_results = NoSyncResults
    /\ drive_modules = <<>>
    /\ modules = <<>>
    /\ scan = NoScan
    /\ full_results = NoFullResults
    /\ ret = NoReturn
    /\ call = NoCall
    /\ hist = [cur |-> NoRunHist, ended |-> <<>>]

\* the run has ended: remember what it did and what it left behind
EndOfRun(store, h) ==
    [cur |-> h,
     ended |-> Append(hist.ended, [counts |-> RowCounts(store), obs |-> h])]

SyncLogCreated(r) ==
    /\ db' = r.store
    /\ sync_id' = r.id
    /\ pc' = IF r.raised THEN "except" ELSE "list_folders"
    /\ hist' = [hist EXCEPT !.cur =
                   [NoRunHist EXCEPT !.log_created = ~r.raised,
                                     !.calls_raised = IF r.raised THEN 1 ELSE 0]]

\* lines 358-362: sync_id = self.dao.create_sync_log('full_adaptive_scan')
BeginScan ==
    /\ pc = "idle"
    /\ run < MaxRuns
    /\ \E fault \in Faults({"create_sync_log"}) :
          /\ faults' = Spend(fault)
          /\ SyncLogCreated(create_sync_log(table_schemas, db, "full_adaptive_scan",
                                            clock + 1, fault # "none"))
    /\ clock' = clock + 1
    /\ run' = run + 1
    /\ sync_results' = NoSyncResults
    /\ drive_modules' = <<>>
    /\ modules' = <<>>
    /\ scan' = NoScan
    /\ full_results' = NoFullResults
    /\ ret' = NoReturn
    /\ UNCHANGED <<call, table_schemas>>

\* sync_modules_to_db, lines 179-190 and 229-232
ListFolders ==
    /\ pc = "list_folders"
    /\ \E fault \in Faults({"list_folders_in_root"}) :
          /\ faults' = Spend(fault)
          /\ IF fault # "none"
             THEN /\ sync_results' = [NoSyncResults EXCEPT !.has_error = TRUE]
                  /\ drive_modules' = <<>>
                  /\ pc' = "get_modules"
                  /\ hist' = [hist EXCEPT !.cur.listing_failed = TRUE,
                                          !.cur.calls_raised = @ + 1]
             ELSE /\ sync_results' = [NoSyncResults EXCEPT !.has_errors = TRUE]
                  /\ drive_modules' = DriveFolders
                  /\ pc' = IF DriveFolders = <<>> THEN "get_modules" ELSE "sync_folder"
                  /\ hist' = hist
    /\ UNCHANGED <<call, table_schemas, db, clock, run, sync_id, modules, scan,
                   full_results, ret>>

\* the order_index of the row a create_module call stored
AssignedOrder(created) ==
    (CHOOSE r \in created.store.modules : r["id"] = created.id)["order_index"]

\* where sync_modules_to_db returns to: full_adaptive_scan (line 366) when a
\* scan is running, its caller otherwise
SyncReturn == IF run = 0 THEN "idle" ELSE "get_modules"

\* lines 200-224, given what the two DAO calls answer
FolderSynced(fault, existing_module, created) ==
    /\ fault = "create_module" => ~existing_module.raised /\ ~existing_module.found
    /\ IF existing_module.raised
       THEN /\ sync_results' =
                 [sync_results EXCEPT !.errors = Append(@, "Error procesando")]
            /\ db' = db
            /\ hist' = [hist EXCEPT !.cur.calls_raised = @ + 1,
                                    !.cur.sync_errors = @ + 1]
       ELSE IF existing_module.found
       THEN /\ sync_results' =
                 [sync_results EXCEPT !.modules_existing = @ + 1,
                                      !.modules_processed = @ + 1]
            /\ db' = db
            /\ hist' = hist
       ELSE IF created.raised
       THEN /\ sync_results' =
                 [sync_results EXCEPT !.errors = Append(@, "Error creando"),
                                      !.modules_processed = @ + 1]
            /\ db' = db
            /\ hist' = [hist EXCEPT !.cur.calls_raised = @ + 1,
                                    !.cur.sync_errors = @ + 1]
       ELSE /\ sync_results' =
                 [sync_results EXCEPT !.modules_created = @ + 1,
                                      !.modules_processed = @ + 1]
            /\ db' = created.store
            /\ hist' = [hist EXCEPT !.cur.modules_inserted = @ + 1,
                                    !.cur.order_indexes =
                                        Append(@, AssignedOrder(created))]

\* sync_modules_to_db, one iteration of the loop of lines 192-224
SyncFolder ==
    /\ pc = "sync_folder"
    /\ drive_modules # <<>>
    /\ \E fault \in Faults({"get_module_by_drive_folder", "create_module"}) :
          /\ faults' = Spend(fault)
          /\ FolderSynced(
                 fault,
                 get_module_by_drive_folder(table_schemas, db, Head(drive_modules).id,
                                            fault = "get_module_by_drive_folder"),
                 create_module(table_schemas, db, Head(drive_modules).name,
                               Head(drive_modules).id,
                               SyncDescription \o Head(drive_modules).name, clock,
                               fault = "create_module"))
    /\ drive_modules' = Tail(drive_modules)
    /\ pc' = IF Tail(drive_modules) = <<>> THEN SyncReturn ELSE "sync_folder"
    /\ UNCHANGED <<call, table_schemas, clock, run, sync_id, modules, scan,
                   full_results, ret>>

ModulesRead(r) ==
    IF r.raised
    THEN /\ pc' = "except"
         /\ modules' = <<>>
         /\ full_results' = full_results
         /\ hist' = [hist EXCEPT !.cur.calls_raised = @ + 1]
    ELSE /\ pc' = IF r.rows = <<>> THEN "update_log" ELSE "list_files"
         /\ modules' = r.rows
         /\ full_results' =
              [NoFullResults EXCEPT
                  !.total_modules = Len(r.rows),
                  \* sync_results.get('errors', [])
                  !.errors = IF sync_results.has_errors
                             THEN sync_results.errors ELSE <<>>]
         /\ hist' = hist

\* lines 368-384: modules = self.dao.get_all_modules(); full_results = {...}
GetModules ==
    /\ pc = "get_modules"
    /\ \E fault \in Faults({"get_all_modules"}) :
          /\ faults' = Spend(fault)
          /\ ModulesRead(get_all_modules(table_schemas, db, fault # "none"))
    /\ UNCHANGED <<call, table_schemas, db, clock, run, sync_id, sync_results,
                   drive_modules, scan, ret>>

\* full_results['errors'].append(msg): the list is sync_results['errors']
\* itself when sync_modules_to_db returned one
AppendRunError(msg) ==
    /\ full_results' = [full_results EXCEPT !.errors = Append(@, msg)]
    /\ sync_results' = IF sync_results.has_errors
                       THEN [sync_results EXCEPT !.errors = Append(@, msg)]
                       ELSE sync_results

\* a variant of the module loop that ends with the module at hand
StopAfterModule(rest) == "update_log"

\* a variant of the module loop that reconciles again before each module
ResyncBeforeModule(rest) == IF rest = <<>> THEN "update_log" ELSE "sync_folder"

NextModulePc(rest) == IF rest = <<>> THEN "update_log" ELSE "list_files"

FilesListed(module_id, files) ==
    scan' = [NoScan EXCEPT !.module_id = module_id,
                           !.files = files,
                           !.files_found = Len(files)]

\* scan_module_smart up to the file loop (lines 239-280), and lines 406-407
\* of full_adaptive_scan when it returns {'error': ...}
ListFiles ==
    /\ pc = "list_files"
    /\ modules # <<>>
    /\ \E fault \in Faults({"list_files_in_folder"}) :
          /\ faults' = Spend(fault)
          /\ IF fault # "none"
             THEN /\ AppendRunError("Error escaneando módulo")
                  /\ modules' = Tail(modules)
                  /\ scan' = NoScan
                  /\ pc' = NextModulePc(Tail(modules))
                  /\ hist' = [hist EXCEPT !.cur.module_errors = @ + 1,
                                          !.cur.calls_raised = @ + 1]
             ELSE /\ FilesListed(Head(modules)["id"],
                                 list_files_in_folder(Head(modules)["drive_folder_id"]))
                  /\ pc' = "scan_file"
                  /\ UNCHANGED <<modules, full_results, sync_results, hist>>
    /\ UNCHANGED <<call, table_schemas, db, clock, run, sync_id, drive_modules, ret>>

\* lines 312-334, given what the DAO answers
SubmissionStored(rest, student, lookup, submission) ==
    IF lookup.raised
    THEN /\ scan' = [rest EXCEPT !.errors = Append(@, "Error estudiante")]
         /\ db' = student.store
         /\ hist' = [hist EXCEPT
                !.cur.file_errors = @ + 1,
                !.cur.calls_raised = @ + 1,
                !.cur.students_inserted = IF student.inserted THEN @ + 1 ELSE @]
    ELSE IF submission.raised
    THEN /\ scan' = [rest EXCEPT
                !.students_created = IF lookup.found THEN @ ELSE @ + 1,
                !.errors = Append(@, "Error submission")]
         /\ db' = student.store
         /\ hist' = [hist EXCEPT
                !.cur.file_errors = @ + 1,
                !.cur.calls_raised = @ + 1,
                !.cur.students_inserted = IF student.inserted THEN @ + 1 ELSE @]
    ELSE /\ scan' = [rest EXCEPT
                !.students_created = IF lookup.found THEN @ ELSE @ + 1,
                !.submissions_created = @ + 1,
                !.files_processed = @ + 1]
         /\ db' = submission.store
         /\ hist' = [hist EXCEPT
                !.cur.students_inserted = IF student.inserted THEN @ + 1 ELSE @,
                !.cur.submissions_inserted =
                    IF submission.inserted THEN @ + 1 ELSE @]

\* lines 308-321, given what create_student answers
StudentStored(fault, rest, file_data, email, student) ==
    /\ fault \in {"get_student_by_email", "create_submission"} => ~student.raised
    /\ IF student.raised
       THEN /\ scan' = [rest EXCEPT !.errors = Append(@, "Error estudiante")]
            /\ db' = db
            /\ hist' = [hist EXCEPT !.cur.file_errors = @ + 1,
                                    !.cur.calls_raised = @ + 1]
       ELSE SubmissionStored(
                rest, student,
                get_student_by_email(table_schemas, student.store, email,
                                     fault = "get_student_by_email"),
                create_submission(table_schemas, student.store, scan.module_id,
                                  student.id, file_data, clock,
                                  fault = "create_submission"))

\* a variant of the loop body that stores a file nobody was identified for
\* under its file name
StudentGuessed(fault, rest, file_data, student_info) ==
    StudentStored(
        fault, rest, file_data,
        IF student_info.identified THEN student_info.email
        ELSE placeholder_email(file_data.name),
        create_student(table_schemas, db,
                       IF student_info.identified THEN student_info.name
                       ELSE file_data.name,
                       IF student_info.identified THEN student_info.email
                       ELSE placeholder_email(file_data.name),
                       clock, fault = "create_student"))

\* lines 299-309, given what identify_student_from_file answers
StudentIdentified(fault, rest, file_data, student_info) ==
    /\ fault # "none" => student_info.identified
    /\ IF ~student_info.identified
       THEN /\ scan' = rest
            /\ db' = db
            /\ hist' = [hist EXCEPT !.cur.unresolved = @ + 1]
       ELSE StudentStored(
                fault, rest, file_data, student_info.email,
                create_student(table_schemas, db, student_info.name,
                               student_info.email, clock,
                               fault = "create_student"))

\* scan_module_smart, one iteration of the loop of lines 283-341
ScanFile ==
    /\ pc = "scan_file"
    /\ scan.files # <<>>
    /\ \E fault \in Faults({"create_student", "get_student_by_email",
                            "create_submission"}) :
          /\ faults' = Spend(fault)
          /\ StudentIdentified(fault, [scan EXCEPT !.files = Tail(@)],
                               Head(scan.files),
                               identify_student_from_file(Head(scan.files)))
    /\ UNCHANGED <<call, table_schemas, clock, pc, run, sync_id, sync_results,
                   drive_modules, modules, full_results, ret>>

\* scan_module_smart returns its results (lines 343-349); full_adaptive_scan
\* adds them up (lines 393-405)
EndModule ==
    /\ pc = "scan_file"
    /\ scan.files = <<>>
    /\ full_results' =
          [full_results EXCEPT
              !.modules_scanned = @ + 1,
              !.total_files = @ + scan.files_found,
              !.total_submissions = @ + scan.submissions_created,
              !.total_students = @ + scan.students_created,
              !.module_details =
                  Append(@, [files |-> scan.files_found,
                             submissions |-> scan.submissions_created,
                             students |-> scan.students_created,
                             errors |-> Len(scan.errors)])]
    /\ modules' = Tail(modules)
    /\ pc' = NextModulePc(Tail(modules))
    /\ scan' = NoScan
    /\ UNCHANGED <<call, table_schemas, db, clock, run, faults, sync_id, sync_results,
                   drive_modules, ret, hist>>

\* line 415
final_status(errors) ==
    IF errors = <<>> THEN "completed" ELSE "completed_with_errors"

\* a variant of the payload that holds every message
final_error_details_all(errors) ==
    IF errors # <<>> THEN <<"errors">> \o errors ELSE NoneText

\* line 421: json.dumps({"errors": full_results['errors'][:3]}) or None
final_error_details(errors) ==
    IF errors # <<>> THEN <<"errors">> \o Take(errors, 3) ELSE NoneText

\* the keys of the full_results dict (lines 372-382)
full_results_keys ==
    {"sync_id", "sync_results", "total_modules", "modules_scanned", "total_files",
     "total_submissions", "total_students", "errors", "module_details"}

LogUpdated(r) ==
    /\ db' = r.store
    /\ IF r.raised
       THEN /\ pc' = "except"
            /\ ret' = ret
            /\ hist' = [hist EXCEPT !.cur.calls_raised = @ + 1]
       ELSE /\ pc' = "idle"
            /\ ret' = [outcome |-> "returned",
                       keys |-> full_results_keys,
                       errors |-> full_results.errors,
                       total_students |-> full_results.total_students,
                       total_submissions |-> full_results.total_submissions]
            /\ hist' = EndOfRun(r.store, [hist.cur EXCEPT !.status_writes = @ + 1])

\* lines 414-439: the terminal update of the sync log, and the return
UpdateLog ==
    /\ pc = "update_log"
    /\ \E fault \in Faults({"update_sync_log"}) :
          /\ faults' = Spend(fault)
          /\ LogUpdated(update_sync_log(table_schemas, db, sync_id,
                                        final_status(full_results.errors),
                                        full_results.total_files,
                                        Len(full_results.errors),
                                        final_error_details(full_results.errors),
                                        clock, fault # "none"))
    /\ UNCHANGED <<call, table_schemas, clock, run, sync_id, sync_results,
                   drive_modules, modules, scan, full_results>>

\* line 449: return {'error': error_msg}
failed_return == [outcome |-> "returned", keys |-> {"error"}, errors |-> <<>>,
                  total_students |-> 0, total_submissions |-> 0]

\* the update of line 447 raises inside the handler: the call raises
raised_return == [outcome |-> "raised", keys |-> {}, errors |-> <<>>,
                  total_students |-> 0, total_submissions |-> 0]

MarkedFailed(r) ==
    IF sync_id = NoneInt       \* 'sync_id' not in locals()
    THEN /\ db' = db
         /\ ret' = failed_return
         /\ hist' = EndOfRun(db, hist.cur)
    ELSE IF r.raised
    THEN /\ db' = db
         /\ ret' = raised_return
         /\ hist' = EndOfRun(db, [hist.cur EXCEPT !.calls_raised = @ + 1,
                                                  !.secondary_failed = TRUE])
    ELSE /\ db' = r.store
         /\ ret' = failed_return
         /\ hist' = EndOfRun(r.store, [hist.cur EXCEPT !.status_writes = @ + 1])

\* the handler of lines 441-449
HandleException ==
    /\ pc = "except"
    /\ \E fault \in Faults({"update_sync_log"}) :
          /\ fault # "none" => sync_id # NoneInt
          /\ faults' = Spend(fault)
          /\ MarkedFailed(update_sync_log(table_schemas, db, sync_id, "failed",
                                          NoneInt, NoneInt,
                                          <<"error", "Error en escaneo completo">>,
                                          clock, fault # "none"))
    /\ pc' = "idle"
    /\ UNCHANGED <<call, table_schemas, clock, run, sync_id, sync_results,
                   drive_modules, modules, scan, full_results>>

Next ==
    \/ BeginScan
    \/ ListFolders
    \/ SyncFolder
    \/ GetModules
    \/ ListFiles
    \/ ScanFile
    \/ EndModule
    \/ UpdateLog
    \/ HandleException

Spec == Init /\ [][Next]_vars

(***************************************************************************)
(* The Entity Repository on its own: any sequence of create_student and    *)
(* create_submission calls on a store that starts empty.  call keeps the   *)
(* arguments, the answer and the store as it was before the call.          *)
(***************************************************************************)
StudentNames == {<<"A", "n", "a">>, <<"B", "e", "n">>}

StudentEmails ==
    {<<"a", "@", "x">>, <<"b", "@", "x">>, <<"n", "o">>, NoneText}

ModuleIds == {1, 2}
StudentIds == {1, 2}

Png == <<"i", "m", "a", "g", "e", "/", "p", "n", "g">>

\* one remote file as first seen, the same file renamed and grown, and
\* another file
FileSeen ==
    [id |-> <<"F", "1">>, name |-> <<"a", ".", "j", "p", "g">>,
     mimeType |-> Jpeg, size |-> <<"7">>,
     createdTime |-> Timestamp(1), modifiedTime |-> Timestamp(1),
     lastModifyingUser |-> <<>>, owners |-> <<>>]

FileSeenAgain ==
    [id |-> <<"F", "1">>, name |-> <<"b", ".", "p", "n", "g">>,
     mimeType |-> Png, size |-> <<"9", "9", "9", "9", "9", "9", "9">>,
     createdTime |-> Timestamp(2), modifiedTime |-> Timestamp(3),
     lastModifyingUser |-> <<User(<<"u", "@", "x", ".", "i", "o">>, <<"U", "m", "a">>)>>,
     owners |-> <<>>]

FileOther ==
    [id |-> <<"F", "2">>, name |-> <<"c", ".", "j", "p", "g">>,
     mimeType |-> Jpeg, size |-> NoneText,
     createdTime |-> NoTimestamp, modifiedTime |-> NoTimestamp,
     lastModifyingUser |-> <<>>, owners |-> <<>>]

SubmissionFiles == {FileSeen, FileSeenAgain, FileOther}

InitDao ==
    /\ table_schemas = DeployedSchema
    /\ db = EmptyDb
    /\ clock = 0
    /\ pc = "dao"
    /\ run = 0
    /\ faults = 0
    /\ sync_id = NoneInt
    /\ sync_results = NoSyncResults
    /\ drive_modules = <<>>
    /\ modules = <<>>
    /\ scan = NoScan
    /\ full_results = NoFullResults
    /\ ret = NoReturn
    /\ call = NoCall
    /\ hist = [cur |-> NoRunHist, ended |-> <<>>]

StudentCalled(name, email, fault, r) ==
    /\ db' = r.store
    /\ call' = [op |-> "create_student", name |-> name, email |-> email,
                fault |-> fault, raised |-> r.raised, id |-> r.id, before |-> db,
                conn |-> r.conn]

\* dao.create_student(name, email)
CreateStudent ==
    /\ clock < MaxCalls
    /\ \E name \in StudentNames, email \in StudentEmails,
          fault \in Faults({"create_student"}) :
          /\ faults' = Spend(fault)
          /\ StudentCalled(name, email, fault # "none",
                           create_student(table_schemas, db, name, email,
                                          clock + 1, fault # "none"))
    /\ clock' = clock + 1
    /\ UNCHANGED <<table_schemas, pc, run, sync_id, sync_results, drive_modules,
                   modules, scan, full_results, ret, hist>>

SubmissionCalled(module_id, student_id, file_data, fault, r) ==
    /\ db' = r.store
    /\ call' = [op |-> "create_submission", module_id |-> module_id,
                student_id |-> student_id, file_data |-> file_data,
                fault |-> fault, raised |-> r.raised, id |-> r.id, before |-> db,
                conn |-> r.conn]

\* dao.create_submission(module_id, student_id, file_data)
CreateSubmission ==
    /\ clock < MaxCalls
    /\ \E module_id \in ModuleIds, student_id \in StudentIds,
          file_data \in SubmissionFiles,
          fault \in Faults({"create_submission"}) :
          /\ faults' = Spend(fault)
          /\ SubmissionCalled(module_id, student_id, file_data, fault # "none",
                              create_submission(table_schemas, db, module_id,
                                                student_id, file_data,
                                                clock + 1, fault # "none"))
    /\ clock' = clock + 1
    /\ UNCHANGED <<table_schemas, pc, run, sync_id, sync_results, drive_modules,
                   modules, scan, full_results, ret, hist>>

NextDao ==
    \/ CreateStudent
    \/ CreateSubmission

SpecDao == InitDao /\ [][NextDao]_vars

(***************************************************************************)
(* The Identity Resolver on its own: identify_student_from_file applied to *)
(* one file, drawn from every combination of a last modifying user, an     *)
(* owners list and a file name.                                            *)
(***************************************************************************)
Uploader == User(<<"u", "@", "x", ".", "i", "o">>, <<"U", "m", "a">>)
Owner == User(<<"o", "@", "x", ".", "i", "o">>, <<"O", "t", "o">>)
CoOwner == User(<<"p", "@", "x", ".", "i", "o">>, NoneText)
Nameless == User(NoneText, <<"O", "t", "o">>)
Unaddressed == User(<<"u", "x">>, <<"U", "m", "a">>)

LastModifyingUsers == {<<>>, <<Uploader>>, <<Unaddressed>>, <<Nameless>>}

OwnerLists ==
    {<<>>, <<Owner>>, <<Nameless, Owner>>, <<CoOwner, Nameless>>, <<Unaddressed>>}

FileNames ==
    {<<"a", "@", "b", ".", "c", "o", ".", "j", "p", "g">>,
     <<"M", "o", "d", "u", "l", "o", "7", "_", "A", "n", "a", "_", "0", "1", ".", "j", "p", "g">>,
     <<"M", "o", "d", "u", "l", "o", "7", "_", "0", "1", ".", "j", "p", "g">>,
     <<"A", "n", "a", "_", "P", "a", "z", "_", "2", ".", "j", "p", "g">>,
     <<"x", ".", "p", "n", "g">>,
     <<"T", "e", "s", "t", "_", "A", "n", "a", ".", "j", "p", "g">>,
     <<"M", "o", "d", "u", "l", "o", "7", "_", "T", "e", "s", "t", "_", "0", "1", ".", "j", "p", "g">>,
     <<"M", "o", "d", "u", "l", "o", "7", "_", "A", "n", "a", "P", "a", "z", "_", "0", "1", ".", "j", "p", "g">>,
     <<"J", "o", "s", "é", "_", "Ñ", "u", ".", "j", "p", "g">>,
     <<"M", "ó", "d", "u", "l", "o", "7", "_", "0", "2", ".", "p", "n", "g">>,
     <<"M", "o", "d", "u", "l", "7", "_", "0", "1", ".", "j", "p", "g">>}

RemoteFiles ==
    {[id |-> <<"1">>, name |-> name, mimeType |-> Jpeg, size |-> <<"7">>,
      createdTime |-> Timestamp(1), modifiedTime |-> Timestamp(1),
      lastModifyingUser |-> user, owners |-> owners] :
        name \in FileNames, user \in LastModifyingUsers, owners \in OwnerLists}

InitId ==
    /\ table_schemas = DeployedSchema
    /\ db = EmptyDb
    /\ clock = 0
    /\ pc = "identify"
    /\ run = 0
    /\ faults = 0
    /\ sync_id = NoneInt
    /\ sync_results = NoSyncResults
    /\ drive_modules = <<>>
    /\ modules = <<>>
    /\ scan = NoScan
    /\ full_results = NoFullResults
    /\ ret = NoReturn
    /\ call \in {[op |-> "pending", file_data |-> f] : f \in RemoteFiles}
    /\ hist = [cur |-> NoRunHist, ended |-> <<>>]

\* scanner.identify_student_from_file(file_data)
Identify ==
    /\ call.op = "pending"
    /\ call' = [op |-> "identify_student_from_file",
                file_data |-> call.file_data,
                student_info |-> identify_student_from_file(call.file_data)]
    /\ UNCHANGED <<table_schemas, db, clock, pc, run, faults, sync_id,
                   sync_results, drive_modules, modules, scan, full_results,
                   ret, hist>>

NextIdentify ==
    \/ Identify

SpecId == InitId /\ [][NextIdentify]_vars

(***************************************************************************)
(* Module synchronisation on its own: sync_modules_to_db called over a     *)
(* root listing that changes from call to call, and module rows deleted    *)
(* from the database between the calls.                                    *)
(***************************************************************************)
FolderC == <<"f", "C">>
FolderD == <<"f", "D">>
FolderE == <<"f", "E">>
FolderF == <<"f", "F">>

Folder(id, name) == [id |-> id, name |-> name]

Listings ==
    {DriveFolders,
     <<Folder(FolderA, <<"M", "o", "d", "u", "l", "o", " ", "7">>)>>,
     <<Folder(FolderB, <<"L", "i", "v", "e", "s">>),
       Folder(FolderA, <<"M", "o", "d", "u", "l", "o", " ", "1", "2">>)>>,
     <<Folder(FolderC, <<"M", "ó", "d", "u", "l", "o", " ", "7">>),
       Folder(FolderD, <<"C", "o", "r", "r", "e", "c", "c", "i", "o", "n", "e", "s",
                         " ", "F", "i", "n", "a", "l", "e", "s">>)>>,
     <<Folder(FolderE, <<"x", "y", "z", "1", "2", "3">>),
       Folder(FolderF, <<"1", "2", "3">>)>>}

\* scanner.sync_modules_to_db(), lines 179-190 and 229-232
SyncModules ==
    /\ pc = "idle"
    /\ run = 0
    /\ clock < MaxCalls
    /\ \E listing \in Listings, fault \in Faults({"list_folders_in_root"}) :
          /\ faults' = Spend(fault)
          /\ call' = [op |-> "sync_modules_to_db", listing |-> listing,
                      fault |-> fault, before |-> db]
          /\ IF fault # "none"
             THEN /\ sync_results' = [NoSyncResults EXCEPT !.has_error = TRUE]
                  /\ drive_modules' = <<>>
                  /\ pc' = "idle"
             ELSE /\ sync_results' = [NoSyncResults EXCEPT !.has_errors = TRUE]
                  /\ drive_modules' = listing
                  /\ pc' = "sync_folder"
    /\ clock' = clock + 1
    /\ UNCHANGED <<table_schemas, db, run, sync_id, modules, scan,
                   full_results, ret, hist>>

\* a module row is deleted from the database, outside the program
DeleteModule ==
    /\ pc = "idle"
    /\ run = 0
    /\ clock < MaxCalls
    /\ \E r \in db.modules :
          /\ db' = [db EXCEPT !.modules = @ \ {r}]
          /\ call' = [op |-> "delete_module", row |-> r, before |-> db]
    /\ clock' = clock + 1
    /\ UNCHANGED <<table_schemas, pc, run, faults, sync_id, sync_results,
                   drive_modules, modules, scan, full_results, ret, hist>>

NextSync ==
    \/ SyncModules
    \/ SyncFolder
    \/ DeleteModule

SpecSync == Init /\ [][NextSync]_vars

(***************************************************************************)
(* The end of a full scan on its own: the module loop of a scan is over    *)
(* with at most MaxErrors messages in full_results['errors'], as it is     *)
(* over a root with as many folders.                                       *)
(***************************************************************************)
ErrorMessages == {"Error creando", "Error escaneando módulo"}

ErrorLists == UNION {[1..n -> ErrorMessages] : n \in 0..MaxErrors}

\* the store after create_sync_log of line 362
RunningStore ==
    create_sync_log(DeployedSchema, EmptyDb, "full_adaptive_scan", 1, FALSE).store

InitEnd ==
    /\ table_schemas = DeployedSchema
    /\ db = RunningStore
    /\ clock = 1
    /\ pc = "update_log"
    /\ run = 1
    /\ faults = 0
    /\ sync_id = 1
    /\ sync_results = NoSyncResults
    /\ drive_modules = <<>>
    /\ modules = <<>>
    /\ scan = NoScan
    /\ \E errors \in ErrorLists, total_files \in {0, 2} :
          full_results = [NoFullResults EXCEPT !.errors = errors,
                                               !.total_files = total_files]
    /\ ret = NoReturn
    /\ call = NoCall
    /\ hist = [cur |-> [NoRunHist EXCEPT !.log_created = TRUE], ended |-> <<>>]

NextEnd ==
    \/ UpdateLog
    \/ HandleException

SpecEnd == InitEnd /\ [][NextEnd]_vars

(***************************************************************************)
(* The Statement Builder on its own: _build_insert_query applied to one    *)
(* table name and one dict of at most MaxItems items.                      *)
(***************************************************************************)
TableNames == Tables \cup {"grades"}

ItemKeys == {"full_name", "email", "phone", "order_index"}

SampleOf(key) ==
    CASE key = "full_name" -> <<"A", "n", "a">>
      [] key = "email" -> <<"a", "@", "b", ".", "c", "o">>
      [] key = "phone" -> <<"5", "5", "5">>
      [] key = "order_index" -> 1

Items == {<<key, SampleOf(key)>> : key \in ItemKeys}
             \cup {<<key, NoneOf(key)>> : key \in ItemKeys}

\* the dicts: no key twice
Mappings ==
    {data \in UNION {[1..n -> Items] : n \in 0..MaxItems} :
        \A i, j \in DOMAIN data : i # j => data[i][1] # data[j][1]}

InitBuild ==
    /\ table_schemas = DeployedSchema
    /\ db = EmptyDb
    /\ clock = 0
    /\ pc = "build"
    /\ run = 0
    /\ faults = 0
    /\ sync_id = NoneInt
    /\ sync_results = NoSyncResults
    /\ drive_modules = <<>>
    /\ modules = <<>>
    /\ scan = NoScan
    /\ full_results = NoFullResults
    /\ ret = NoReturn
    /\ call \in {[op |-> "pending", table_name |-> t, data |-> d] :
                    t \in TableNames, d \in Mappings}
    /\ hist = [cur |-> NoRunHist, ended |-> <<>>]

\* dao._build_insert_query(table_name, data)
BuildInsertQuery ==
    /\ call.op = "pending"
    /\ call' = [op |-> "_build_insert_query",
                table_name |-> call.table_name,
                data |-> call.data,
                stmt |-> build_insert_query(table_schemas, call.table_name,
                                            call.data)]
    /\ UNCHANGED <<table_schemas, db, clock, pc, run, faults, sync_id,
                   sync_results, drive_modules, modules, scan, full_results,
                   ret, hist>>

NextBuild ==
    \/ BuildInsertQuery

SpecBuild == InitBuild /\ [][NextBuild]_vars

(***************************************************************************)
(* Properties of the full scan (Spec).                                     *)
(***************************************************************************)
TerminalStatuses == {"completed", "completed_with_errors", "failed"}

StatusOf(store, id) == (CHOOSE r \in store.sync_logs : r["id"] = id)["status"]

\* a full scan has returned or raised, and the next has not started
RunEnded == pc = "idle" /\ ret.outcome # "none"

\* a full scan has ended without a run-level exception: it returned full_results
RunFinished ==
    RunEnded /\ ret.outcome = "returned" /\ ret.keys = full_results_keys

\* the per-file and per-module errors of the run, a folder that could not
\* be registered as a module counted among the per-module errors
ErrorsOfRun ==
    hist.cur.file_errors + hist.cur.unresolved + hist.cur.module_errors
        + hist.cur.sync_errors

\* C1: at the end of a full scan that raised no run-level exception, the
\* status of the SyncRun is 'completed' exactly when no per-file error (an
\* unresolved identity, a rejected student or submission insert) and no
\* per-module error (a failed file listing) occurred, and
\* 'completed_with_errors' when at least one did.
C1_StatusTellsErrors ==
    RunFinished =>
        StatusOf(db, sync_id) =
            (IF ErrorsOfRun = 0 THEN "completed" ELSE "completed_with_errors")

\* a scan in which no call failed left a file without identity and ended
\* 'completed'
C1_CompletedWithUnresolved ==
    /\ RunFinished
    /\ hist.cur.calls_raised = 0
    /\ hist.cur.unresolved > 0
    /\ StatusOf(db, sync_id) = "completed"

\* C2: when the storage collaborator fails while listing the root folders,
\* the run ends Failed: its SyncRun is marked 'failed', never 'completed'.
C2_ListingFailureFailsRun ==
    RunEnded /\ hist.cur.listing_failed /\ hist.cur.log_created =>
        StatusOf(db, sync_id) = "failed"

\* the listing of the root folders failed, nothing else did, and the run
\* was marked 'completed'
C2_CompletedAfterListingFailure ==
    /\ RunFinished
    /\ hist.cur.listing_failed
    /\ hist.cur.calls_raised = 1
    /\ StatusOf(db, sync_id) = "completed"

StatusStep ==
    /\ \A r \in db.sync_logs :
          \E r2 \in db'.sync_logs :
              /\ r2["id"] = r["id"]
              /\ \/ r2["status"] = r["status"]
                 \/ /\ r["status"] = "running"
                    /\ r2["status"] \in TerminalStatuses
                    /\ r["id"] = sync_id
                    /\ pc' = "idle"
    /\ \A r2 \in db'.sync_logs :
          (\A r \in db.sync_logs : r["id"] # r2["id"]) =>
              r2["status"] = "running" /\ pc = "idle"
    /\ pc' = "idle" /\ ret'.outcome = "returned" /\ sync_id' # NoneInt =>
          StatusOf(db', sync_id') \in TerminalStatuses

C7_ReturnHoldsErrors ==
    RunEnded =>
        /\ ret.outcome = "returned" => "errors" \in ret.keys
        /\ ret.outcome = "raised" => hist.cur.secondary_failed

\* a scan has returned from its failed path
C7_FailedReturn ==
    RunEnded /\ ret.outcome = "returned" /\ ret.keys = {"error"}

\* C8: when the write that marks the SyncRun 'failed' after a run-level
\* error fails too, the full scan still returns, and its result reports the
\* original error.
C8_SecondaryFailureSwallowed ==
    RunEnded /\ hist.cur.secondary_failed =>
        ret.outcome = "returned" /\ "error" \in ret.keys

\* the write that marks the SyncRun 'failed' failed, and the scan raised
C8_SecondaryFailureRaised ==
    RunEnded /\ hist.cur.secondary_failed /\ ret.outcome = "raised"

(***************************************************************************)
(* Properties of the Entity Repository (SpecDao).                          *)
(***************************************************************************)
\* the columns ON CONFLICT (file_id) DO UPDATE may write
ObservedColumns == {"filename", "size_bytes", "modified_time", "detected_at"}

RowById(rows, id) == CHOOSE r \in rows : r["id"] = id

\* C4: create_submission for a file id that already has a row leaves one
\* row for that file id, and changes nothing of it but filename,
\* size_bytes, modified_time and detected_at: module_id, student_id and
\* file_id stay as first stored, whatever module id and student id the call
\* passes.
C4_UpsertKeepsReferences ==
    call.op = "create_submission" =>
        \A r \in call.before.submissions :
            r["file_id"] = call.file_data.id =>
                /\ Cardinality(db.submissions) = Cardinality(call.before.submissions)
                /\ \E r2 \in db.submissions :
                      /\ r2["id"] = r["id"]
                      /\ \A c \in DOMAIN r \ ObservedColumns : r2[c] = r[c]

\* a call for a stored file id, with another module id, another student id
\* and another file name, has answered the id of the stored row
C4_UpsertWithOtherReferences ==
    /\ call.op = "create_submission"
    /\ ~call.raised
    /\ \E r \in call.before.submissions :
          /\ r["file_id"] = call.file_data.id
          /\ r["module_id"] # call.module_id
          /\ r["student_id"] # call.student_id
          /\ r["filename"] # call.file_data.name
          /\ r["id"] = call.id
          /\ RowById(db.submissions, call.id)["filename"] = call.file_data.name

\* C5: no two student rows hold the same email containing "@"; and
\* create_student with such an email that a row already holds stores no
\* second row, sets the name of that row to the name given and answers the
\* id of that row.
C5_EmailUnique ==
    /\ \A r1, r2 \in db.students :
          r1["email"] = r2["email"] /\ "@" \in Range(r1["email"]) => r1 = r2
    /\ call.op = "create_student" /\ ~call.fault =>
          \A r \in call.before.students :
              r["email"] = call.email /\ "@" \in Range(call.email) =>
                  /\ ~call.raised
                  /\ call.id = r["id"]
                  /\ Cardinality(db.students) = Cardinality(call.before.students)
                  /\ RowById(db.students, r["id"])["full_name"] = call.name
                  /\ RowById(db.students, r["id"])["email"] = call.email

\* a call with the email of a stored row and another name has answered
C5_ExistingEmailOtherName ==
    /\ call.op = "create_student"
    /\ ~call.raised
    /\ \E r \in call.before.students :
          /\ r["email"] = call.email
          /\ "@" \in Range(call.email)
          /\ r["full_name"] # call.name

(***************************************************************************)
(* Properties of the Identity Resolver (SpecId).                           *)
(***************************************************************************)
Identified == call.op = "identify_student_from_file"

\* the email a user of the file metadata carries contains "@"
BearsEmail(user) ==
    user.emailAddress # NoneText /\ "@" \in Range(user.emailAddress)

ModifierBearsEmail(file_data) ==
    file_data.lastModifyingUser # <<>> /\ BearsEmail(file_data.lastModifyingUser[1])

\* C9: for every file whose lastModifyingUser carries an email containing
\* "@", the identity is resolved, by the first rule, with that email,
\* whatever the owners list and the file name hold.
C9_ModifierWins ==
    Identified /\ ModifierBearsEmail(call.file_data) =>
        /\ call.student_info.identified
        /\ call.student_info.step = 1
        /\ call.student_info.email = call.file_data.lastModifyingUser[1].emailAddress

\* a file whose lastModifyingUser, first owner and name carry three
\* different emails has been resolved
C9_ThreeEmails ==
    /\ Identified
    /\ ModifierBearsEmail(call.file_data)
    /\ call.file_data.owners # <<>>
    /\ BearsEmail(call.file_data.owners[1])
    /\ search(email_pattern, call.file_data.name, FALSE).found
    /\ call.student_info.email # call.file_data.owners[1].emailAddress
    /\ call.student_info.email #
           group0(call.file_data.name,
                  search(email_pattern, call.file_data.name, FALSE))

\* C10: when the lastModifyingUser carries no email containing "@" and the
\* first entry of the owners list does, the identity is resolved, by the
\* second rule, with the email of that first owner: the file name is not
\* consulted for the email.
C10_FirstOwnerWins ==
    /\ Identified
    /\ ~ModifierBearsEmail(call.file_data)
    /\ call.file_data.owners # <<>>
    /\ BearsEmail(call.file_data.owners[1])
    => /\ call.student_info.identified
       /\ call.student_info.step = 2
       /\ call.student_info.email = call.file_data.owners[1].emailAddress

\* a file without an email of its lastModifyingUser, with an email of its
\* first owner and another in its name, has been resolved
C10_OwnerAndFilenameEmail ==
    /\ Identified
    /\ ~ModifierBearsEmail(call.file_data)
    /\ call.file_data.owners # <<>>
    /\ BearsEmail(call.file_data.owners[1])
    /\ search(email_pattern, call.file_data.name, FALSE).found
    /\ call.student_info.email = call.file_data.owners[1].emailAddress

\* C10 as stated: when the lastModifyingUser carries no email containing
\* "@" and some entry of the owners list does, the identity is resolved
\* with the email of an owner.
C10_AnyOwnerWins ==
    /\ Identified
    /\ ~ModifierBearsEmail(call.file_data)
    /\ \E i \in DOMAIN call.file_data.owners : BearsEmail(call.file_data.owners[i])
    => /\ call.student_info.identified
       /\ \E i \in DOMAIN call.file_data.owners :
             call.student_info.email = call.file_data.owners[i].emailAddress

\* the file carries no email in its metadata: rules 1 and 2 do not apply
NoMetadataEmail(file_data) ==
    /\ ~ModifierBearsEmail(file_data)
    /\ ~(file_data.owners # <<>> /\ BearsEmail(file_data.owners[1]))

\* the identity was resolved by the file name patterns (rule 4)
NameOnlyResolved ==
    /\ Identified
    /\ call.student_info.identified
    /\ call.student_info.step = 4

\* the candidates the name patterns find in a file name, cleaned
Candidates(filename) ==
    {candidate_name(filename, search(name_patterns[i], filename, TRUE)) :
        i \in {j \in DOMAIN name_patterns :
                  search(name_patterns[j], filename, TRUE).found}}

ModuleWords ==
    {<<"m", "o", "d", "u", "l", "o">>, <<"m", "ó", "d", "u", "l", "o">>,
     <<"d", "u", "l", "o">>}

StoplistWords ==
    ModuleWords \cup {<<"e", "j", "e", "r", "c", "i", "c", "i", "o">>,
                      <<"t", "a", "r", "e", "a">>, <<"t", "e", "s", "t">>}

\* C11: a name resolved by the file name patterns never equals,
\* case-insensitively, a word of the stoplist (modulo, módulo, dulo,
\* ejercicio, tarea, test) and never contains one of the module words
\* (modulo, módulo, dulo).
C11_StoplistRejects ==
    NameOnlyResolved =>
        /\ lower(call.student_info.name) \notin StoplistWords
        /\ \A w \in ModuleWords : ~Contains(lower(call.student_info.name), w)

\* a file without metadata whose name holds the candidate "Test" has been
\* left unresolved
C11_StoplistWordRejected ==
    /\ Identified
    /\ NoMetadataEmail(call.file_data)
    /\ \E c \in Candidates(call.file_data.name) : lower(c) = <<"t", "e", "s", "t">>
    /\ ~call.student_info.identified

\* C11 as stated: a name resolved by the file name patterns never equals
\* and never contains, case-insensitively, any word of the stoplist.
C11_NoStoplistWordInName ==
    NameOnlyResolved =>
        \A w \in StoplistWords : ~Contains(lower(call.student_info.name), w)

\* ^[Mm][óo]?dulo?\s*\d+[_\s-]*\d*\.[a-zA-Z]*$ : a module prefix, an
\* index and an extension, nothing else
module_and_index_pattern ==
    Cat(<<Bol>> \o ModuloAnyAccent \o
        <<Star(Set(Space)), Plus(DigitSet), Star(Separator), Star(DigitSet),
          Lit("."), Star(Set(AsciiLetter)), Eol>>)

ModuleAndIndexOnly(filename) == search(module_and_index_pattern, filename, TRUE).found

\* C12: a file without an email in its metadata whose name is a module
\* prefix and a numeric index only (such as "Modulo7_01.jpg") is not
\* identified: no pattern turns the module token into a name.
C12_ModuleTokenIsNoName ==
    /\ Identified
    /\ NoMetadataEmail(call.file_data)
    /\ ModuleAndIndexOnly(call.file_data.name)
    => ~call.student_info.identified

\* such a file has been resolved to a name that is the module token of its
\* file name
C12_ModuleTokenBecameName ==
    /\ Identified
    /\ NoMetadataEmail(call.file_data)
    /\ ModuleAndIndexOnly(call.file_data.name)
    /\ NameOnlyResolved
    /\ call.student_info.name \in Candidates(call.file_data.name)
    /\ search(module_prefix_pattern,
              call.student_info.name \o <<"7">>, TRUE).found

\* ^[Mm][óo]?dulo?\s*\d+[_\s-]+[A-Za-zÀ-ÿ]*[a-z][A-Z] : a module prefix and
\* a name token with a camel-case boundary
camel_case_file_pattern ==
    Cat(<<Bol>> \o ModuloAnyAccent \o
        <<Star(Set(Space)), Plus(DigitSet), Plus(Separator), Star(LetterSet),
          Set(AsciiLower), Set(AsciiUpper)>>)

CamelCaseFile(filename) == search(camel_case_file_pattern, filename, FALSE).found

HasCamelBoundary(name) ==
    \E i \in 1..(Len(name) - 1) :
        name[i] \in AsciiLower /\ name[i + 1] \in AsciiUpper

WordsCapitalized(name) ==
    \A i \in DOMAIN split(name) : split(name)[i] = capitalize(split(name)[i])

\* C13: a file without an email in its metadata or in its name, whose name
\* is a module prefix followed by a camel-case name token (such as
\* "Modulo7_EduardoMoreno_01.jpg"), is resolved to a name in which the
\* camel-case boundaries are spaces and every word is capitalized.
C13_CamelCaseSplit ==
    /\ Identified
    /\ NoMetadataEmail(call.file_data)
    /\ ~search(email_pattern, call.file_data.name, FALSE).found
    /\ CamelCaseFile(call.file_data.name)
    => /\ call.student_info.identified
       /\ ~HasCamelBoundary(call.student_info.name)
       /\ WordsCapitalized(call.student_info.name)

\* such a file has been resolved to the unsplit token "AnaPaz"
C13_CamelCaseKept ==
    /\ Identified
    /\ NoMetadataEmail(call.file_data)
    /\ CamelCaseFile(call.file_data.name)
    /\ NameOnlyResolved
    /\ call.student_info.name = <<"A", "n", "a", "P", "a", "z">>
    /\ _extract_name_from_filename(call.file_data.name).name =
           <<"A", "n", "a", " ", "P", "a", "z">>

\* the character of a placeholder address that stands for a character of
\* the lower-cased name
AddressChar(c) ==
    CASE c = " " -> "."
      [] c = "á" -> "a"
      [] c = "é" -> "e"
      [] c = "í" -> "i"
      [] c = "ó" -> "o"
      [] c = "ú" -> "u"
      [] c = "ñ" -> "n"
      [] OTHER -> c

ExpectedPlaceholder(name) ==
    [i \in 1..Len(name) |-> AddressChar(lower(name)[i])]
        \o <<"@", "e", "x", "t", "r", "a", "c", "t", "e", "d", ".", "t", "e", "m", "p">>

\* the email the rule that resolved the file found in the metadata or in
\* the file name
SourceEmail(file_data, step) ==
    CASE step = 1 -> file_data.lastModifyingUser[1].emailAddress
      [] step = 2 -> file_data.owners[1].emailAddress
      [] step = 3 -> group0(file_data.name,
                            search(email_pattern, file_data.name, FALSE))

\* C14: every resolution by the file name patterns (rule 4) returns as
\* email the returned name in lower case, with "." for each space and
\* a, e, i, o, u, n for á, é, í, ó, ú, ñ, followed by the placeholder
\* domain; the email of a resolution by rules 1 to 3 is the email found in
\* the metadata or in the file name, unchanged.
C14_PlaceholderEmail ==
    Identified /\ call.student_info.identified =>
        IF call.student_info.step = 4
        THEN call.student_info.email = ExpectedPlaceholder(call.student_info.name)
        ELSE /\ call.student_info.step \in 1..3
             /\ call.student_info.email =
                    SourceEmail(call.file_data, call.student_info.step)

\* a name with a space and two accented letters has been given its
\* placeholder email
C14_AccentedNameResolved ==
    /\ NameOnlyResolved
    /\ call.student_info.name = <<"J", "o", "s", "é", " ", "Ñ", "u">>
    /\ call.student_info.email =
           <<"j", "o", "s", "e", ".", "n", "u", "@",
             "e", "x", "t", "r", "a", "c", "t", "e", "d", ".", "t", "e", "m", "p">>

(***************************************************************************)
(* Properties of the Statement Builder (SpecBuild).                        *)
(***************************************************************************)
Built == call.op = "_build_insert_query"

\* the keys of a dict that are columns of the table and bear a value
SurvivingKeys(table_name, data) ==
    {data[i][1] : i \in {j \in DOMAIN data :
        /\ table_name \in DOMAIN table_schemas
        /\ data[j][1] \in Range(table_schemas[table_name])
        /\ data[j][2] # NoneOf(data[j][1])}}

\* C15: for every table name and every dict, the builder raises exactly
\* when the table is not in the catalog or no key of the dict is a column
\* of the table with a value other than None; otherwise the statement
\* names exactly those keys, each once, and its values are the values of
\* the dict in the order of the columns.
C15_BuilderFilters ==
    Built =>
        IF SurvivingKeys(call.table_name, call.data) = {}
        THEN call.stmt.raised
        ELSE /\ ~call.stmt.raised
             /\ call.stmt.table = call.table_name
             /\ Range(call.stmt.columns) =
                    SurvivingKeys(call.table_name, call.data)
             /\ Len(call.stmt.columns) =
                    Cardinality(SurvivingKeys(call.table_name, call.data))
             /\ Len(call.stmt.values) = Len(call.stmt.columns)
             /\ \A i \in DOMAIN call.stmt.columns :
                    <<call.stmt.columns[i], call.stmt.values[i]>>
                        \in Range(call.data)

\* a statement has been built from a dict that also holds a key that is no
\* column of the table and a column without a value
C15_DroppedBoth ==
    /\ Built
    /\ ~call.stmt.raised
    /\ Len(call.stmt.columns) = 1
    /\ \E i \in DOMAIN call.data :
          /\ call.data[i][1] \notin Range(table_schemas[call.table_name])
          /\ call.data[i][2] # NoneOf(call.data[i][1])
    /\ \E i \in DOMAIN call.data :
          /\ call.data[i][1] \in Range(table_schemas[call.table_name])
          /\ call.data[i][2] = NoneOf(call.data[i][1])

(***************************************************************************)
(* Properties of module synchronisation (SpecSync).                        *)
(***************************************************************************)
UniqueFolder(rows) ==
    \A r, q \in rows : r["drive_folder_id"] = q["drive_folder_id"] => r = q

\* the step is one of sync_modules_to_db, not a deletion from outside
SyncStep == ~(clock' # clock /\ call'.op = "delete_module")

MaxOrder(rows) ==
    IF rows = {} THEN 0
    ELSE CHOOSE m \in {r["order_index"] : r \in rows} :
             \A r \in rows : r["order_index"] <= m

\* a step that stores a module gives it the order_index after the
\* greatest one of the rows there are
OrderFollowsMaximum ==
    \A r \in db'.modules \ db.modules :
        r["order_index"] = MaxOrder(db.modules) + 1

\* C17: create_module gives the new module the order_index one greater
\* than the greatest of the existing modules, and, across creations and
\* deletions, an order_index greater than every order_index given before.
C17_OrderNeverReused ==
    [][/\ OrderFollowsMaximum
       /\ \A r \in db'.modules \ db.modules :
             \A i \in DOMAIN hist.cur.order_indexes :
                 hist.cur.order_indexes[i] < r["order_index"]]_vars

\* after the module with the greatest order_index was deleted, a module
\* has been created with that order_index again
C17_OrderGivenTwice ==
    /\ \E i, j \in DOMAIN hist.cur.order_indexes :
          /\ i < j
          /\ hist.cur.order_indexes[i] = hist.cur.order_indexes[j]
          /\ hist.cur.order_indexes[i] = MaxOrder(db.modules)
    /\ Cardinality({r \in db.modules :
                        r["order_index"] = MaxOrder(db.modules)}) = 1

\* [Mm][óo]dulo?\s*(\d+) : the word, with or without its accent, and the
\* module number
numbered_module_pattern ==
    Cat(ModuloAccent \o <<Star(Set(Space)), Group(Plus(DigitSet))>>)

ModuleNumber(name) ==
    group1(name, search(numbered_module_pattern, name, FALSE))

TwoDigits(digits) == IF Len(digits) = 1 THEN <<"0">> \o digits ELSE digits

KeywordsIn(name) ==
    {i \in DOMAIN special_codes : Contains(lower(name), special_codes[i][1])}

LettersOf(name) == SelectSeq(name, LAMBDA c : c \in AsciiLetter)

\* the code the contract gives a module name
CodeAsStated(name, code) ==
    IF search(numbered_module_pattern, name, FALSE).found
    THEN code = <<"M", "O", "D">> \o TwoDigits(ModuleNumber(name))
    ELSE IF KeywordsIn(name) # {}
    THEN \E i \in KeywordsIn(name) : code = special_codes[i][2]
    ELSE IF LettersOf(name) = <<>>
    THEN code = <<"M", "O", "D", "0">>
    ELSE /\ Len(code) = 4
         /\ \A i \in DOMAIN code : code[i] \in AsciiUpper \cup Digit

\* C18: the code of every module is the one its name determines: "MOD" and
\* the module number on two digits for a name with a module number
\* ("Módulo 7" gives "MOD07"), else the code of a keyword the name
\* contains ("Correcciones Finales" gives "CORR"), else four upper-case
\* characters of the name ("xyz123"), or "MOD0" when the name has no letter.
C18_CodeFromName ==
    \A r \in db.modules : CodeAsStated(r["name"], r["code"])

\* the folders "Módulo 7" and "Correcciones Finales" have been stored, the
\* second with the code "CORR", the first with a code that is not "MOD07"
C18_AccentedModuleStored ==
    /\ \E r \in db.modules :
          /\ r["name"] = <<"M", "ó", "d", "u", "l", "o", " ", "7">>
          /\ r["code"] = <<"M", "D", "U", "L">>
    /\ \E r \in db.modules :
          /\ Contains(lower(r["name"]), <<"c", "o", "r", "r", "e", "c", "c", "i", "o", "n", "e", "s">>)
          /\ r["code"] = <<"C", "O", "R", "R">>

(***************************************************************************)
(* Properties of the file loop of the full scan (Spec).                    *)
(***************************************************************************)
\* the scan is about to process a file nobody can be identified for
AtUnresolvedFile ==
    /\ pc = "scan_file"
    /\ scan.files # <<>>
    /\ ~identify_student_from_file(Head(scan.files)).identified

\* the file ids of the files of the remote tree nobody can be identified for
UnresolvedFileIds ==
    {f.id : f \in {g \in Range(list_files_in_folder(FolderA))
                          \cup Range(list_files_in_folder(FolderB)) :
                      ~identify_student_from_file(g).identified}}

\* C19: the step of the scan over a file for which identity resolution
\* answers "not identified" leaves every table as it is and counts no
\* student and no submission, and the scan goes on with the next file of
\* the module; no submission row ever bears the id of such a file.
C19_UnresolvedSkipped ==
    /\ [](\A r \in db.submissions : r["file_id"] \notin UnresolvedFileIds)
    /\ [][AtUnresolvedFile =>
            /\ db' = db
            /\ scan'.files = Tail(scan.files)
            /\ scan'.students_created = scan.students_created
            /\ scan'.submissions_created = scan.submissions_created
            /\ scan'.module_id = scan.module_id
            /\ pc' = "scan_file"]_vars

\* a scan has skipped a file nobody was identified for and stored the
\* submission of the file that follows it in the module
C19_NextFileStored ==
    /\ hist.cur.unresolved > 0
    /\ UnresolvedFileIds # {}
    /\ \E r \in db.submissions : r["file_id"] = FileOwned.id
    /\ hist.cur.submissions_inserted > 0

\* where the module loop goes on after the module at hand
AfterModule ==
    /\ modules' = Tail(modules)
    /\ pc' = IF Tail(modules) = <<>> THEN "update_log" ELSE "list_files"

\* one step of the two loops
LoopStep ==
    /\ pc = "scan_file" /\ scan.files # <<>> =>
          /\ scan'.files = Tail(scan.files)
          /\ modules' = modules
          /\ pc' = "scan_file"
    /\ pc = "scan_file" /\ scan.files = <<>> => AfterModule
    /\ pc = "list_files" =>
          \/ /\ pc' = "scan_file"
             /\ modules' = modules
             /\ scan'.files =
                    list_files_in_folder(Head(modules)["drive_folder_id"])
          \/ /\ hist'.cur.module_errors = hist.cur.module_errors + 1
             /\ AfterModule

\* the module loop is over: every module the repository returned was
\* scanned or failed as a whole, and every file of the scanned modules was
\* stored, failed or skipped as unresolved
AllAttempted ==
    pc = "update_log" =>
        /\ modules = <<>>
        /\ full_results.modules_scanned + hist.cur.module_errors =
               full_results.total_modules
        /\ full_results.total_submissions + hist.cur.file_errors
               + hist.cur.unresolved = full_results.total_files

\* C20: the step over a file, whether its student or submission call
\* raises or not, goes on with the remaining files of the module; the
\* step over a module whose listing raises goes on with the remaining
\* modules; when the module loop is over every module returned by the
\* repository and every file of every listed module has been attempted.
C20_FailuresIsolated ==
    /\ []AllAttempted
    /\ [][LoopStep]_vars

\* the module loop is over after the listing of the first module raised
\* and, in the second module, a call for the first file raised and the
\* file after it was stored
C20_ScannedPastFailures ==
    /\ pc = "update_log"
    /\ full_results.total_modules = 2
    /\ hist.cur.module_errors = 1
    /\ hist.cur.file_errors = 1
    /\ full_results.total_submissions = 1
    /\ \E r \in db.submissions : r["file_id"] = FileNamed.id

(***************************************************************************)
(* Properties of the end of a full scan (SpecEnd).                         *)
(***************************************************************************)
\* the messages of an error_details payload {"errors": [...]}
PayloadMessages(error_details) ==
    IF error_details = NoneText THEN <<>> ELSE Tail(error_details)

RepositoryCalled == call.op \in {"create_student", "create_submission"}

CalledTable ==
    IF call.op = "create_student" THEN db.students ELSE db.submissions

update_sync_log_parameters == {"sync_id", "status"}

KeywordNames(keywords) == {keywords[i][1] : i \in 1..Len(keywords)}

\* kwargs.get(name): the value passed under the keyword, or None
KeywordOr(keywords, name, none) ==
    IF name \in KeywordNames(keywords) THEN SetItem(keywords, name)[2] ELSE none

\* adaptive_dao.update_sync_log(**keywords): a call that leaves a required
\* parameter without a value raises TypeError before the body runs
call_update_sync_log(schemas, store, keywords, now, fault) ==
    IF ~(update_sync_log_parameters \subseteq KeywordNames(keywords))
    THEN [raised |-> TRUE, store |-> store]
    ELSE update_sync_log(schemas, store,
                         SetItem(keywords, "sync_id")[2],
                         SetItem(keywords, "status")[2],
                         KeywordOr(keywords, "files_processed", NoneInt),
                         KeywordOr(keywords, "errors", NoneInt),
                         KeywordOr(keywords, "error_details", NoneText),
                         now, fault)

\* the keyword arguments of _update_sync_log_success (lines 229-234)
success_keywords(sync_log_id, now) ==
    << <<"sync_log_id", sync_log_id>>, <<"status", "completed">>,
       <<"files_processed", 1>>, <<"completed_at", now>> >>

\* the keyword arguments of _update_sync_log_failure (lines 249-254)
failure_keywords(sync_log_id, error_message, now) ==
    << <<"sync_log_id", sync_log_id>>, <<"status", "failed">>,
       <<"error_details", <<error_message>> >>, <<"completed_at", now>> >>

\* _update_sync_log_success and _update_sync_log_failure: nothing without an
\* id, and an exception of the update is logged as a warning
update_sync_log_guarded(schemas, store, sync_log_id, keywords, now, fault) ==
    IF sync_log_id = NoneInt
    THEN store
    ELSE call_update_sync_log(schemas, store, keywords, now, fault).store

NoCycle ==
    [op |-> "run_full_report_cycle", sync_log_id |-> NoneInt,
     email_sent |-> FALSE, returned |-> FALSE, result |-> FALSE]

InitJob ==
    /\ table_schemas = DeployedSchema
    /\ db = EmptyDb
    /\ clock = 0
    /\ pc = "job_idle"
    /\ run = 0
    /\ faults = 0
    /\ sync_id = NoneInt
    /\ sync_results = NoSyncResults
    /\ drive_modules = <<>>
    /\ modules = <<>>
    /\ scan = NoScan
    /\ full_results = NoFullResults
    /\ ret = NoReturn
    /\ call = NoCycle
    /\ hist = [cur |-> NoRunHist, ended |-> <<>>]

JobUnchanged ==
    UNCHANGED <<table_schemas, sync_results, drive_modules, modules, scan,
                full_results, ret, hist>>

JobLogCreated(r) ==
    /\ db' = r.store
    /\ sync_id' = r.id
    /\ call' = [NoCycle EXCEPT !.sync_log_id = r.id]

\* lines 110-118 and 145-154: the cycle starts, _create_sync_log returns the
\* id of the new sync log or None when creating it raised
JobCreateSyncLog ==
    /\ pc = "job_idle"
    /\ run < MaxCycles
    /\ \E fault \in Faults({"create_sync_log"}) :
          /\ faults' = Spend(fault)
          /\ JobLogCreated(create_sync_log(table_schemas, db,
                                           "automated_cloud_report", clock + 1,
                                           fault # "none"))
    /\ clock' = clock + 1
    /\ run' = run + 1
    /\ pc' = "generate_report"
    /\ JobUnchanged

\* lines 120-121 and 156-186: the report is generated, or generating raises
JobGenerateReport ==
    /\ pc = "generate_report"
    /\ \E fault \in Faults({"generate_full_report"}) :
          /\ faults' = Spend(fault)
          /\ pc' = IF fault = "none" THEN "send_email" ELSE "job_except"
    /\ UNCHANGED <<db, clock, run, sync_id, call>>
    /\ JobUnchanged

\* lines 123-124 and 188-220: the email is sent or not; an exception of the
\* sender is caught in _send_email_report, which then returns False
JobSendEmail ==
    /\ pc = "send_email"
    /\ \E email_sent \in BOOLEAN :
          /\ call' = [call EXCEPT !.email_sent = email_sent]
          /\ pc' = IF email_sent THEN "update_success" ELSE "update_failure"
    /\ UNCHANGED <<db, clock, run, faults, sync_id>>
    /\ JobUnchanged

\* lines 127-130: the email was sent
JobUpdateSuccess ==
    /\ pc = "update_success"
    /\ \E fault \in Faults({"update_sync_log"}) :
          /\ faults' = Spend(fault)
          /\ db' = update_sync_log_guarded(
                       table_schemas, db, call.sync_log_id,
                       success_keywords(call.sync_log_id, clock + 1),
                       clock + 1, fault # "none")
    /\ clock' = clock + 1
    /\ call' = [call EXCEPT !.returned = TRUE, !.result = TRUE]
    /\ pc' = "job_idle"
    /\ UNCHANGED <<run, sync_id>>
    /\ JobUnchanged

\* lines 131-134: the email was not sent
JobUpdateFailure ==
    /\ pc = "update_failure"
    /\ \E fault \in Faults({"update_sync_log"}) :
          /\ faults' = Spend(fault)
          /\ db' = update_sync_log_guarded(
                       table_schemas, db, call.sync_log_id,
                       failure_keywords(call.sync_log_id, "Error enviando email",
                                        clock + 1),
                       clock + 1, fault # "none")
    /\ clock' = clock + 1
    /\ call' = [call EXCEPT !.returned = TRUE, !.result = FALSE]
    /\ pc' = "job_idle"
    /\ UNCHANGED <<run, sync_id>>
    /\ JobUnchanged

\* lines 136-144: the handler of the cycle
JobExcept ==
    /\ pc = "job_except"
    /\ \E fault \in Faults({"update_sync_log"}) :
          /\ faults' = Spend(fault)
          /\ db' = update_sync_log_guarded(
                       table_schemas, db, call.sync_log_id,
                       failure_keywords(call.sync_log_id,
                                        "Error en ciclo de reporte", clock + 1),
                       clock + 1, fault # "none")
    /\ clock' = clock + 1
    /\ call' = [call EXCEPT !.returned = TRUE, !.result = FALSE]
    /\ pc' = "job_idle"
    /\ UNCHANGED <<run, sync_id>>
    /\ JobUnchanged

NextJob ==
    \/ JobCreateSyncLog
    \/ JobGenerateReport
    \/ JobSendEmail
    \/ JobUpdateSuccess
    \/ JobUpdateFailure
    \/ JobExcept

SpecJob == InitJob /\ [][NextJob]_vars

\* the cycle has returned and had created a sync log
CycleRecorded == call.returned /\ call.sync_log_id # NoneInt

\* C23: when run_full_report_cycle has returned and had created a sync log,
\* that sync log is 'completed' if the email was sent and 'failed' otherwise.
C23_JobResultRecorded ==
    (call.op = "run_full_report_cycle" /\ CycleRecorded) =>
        StatusOf(db, call.sync_log_id) =
            (IF call.email_sent THEN "completed" ELSE "failed")

\* the cycle returned True after the email was sent, no collaborator having
\* raised, and its sync log still says 'running'
C23_SentYetRunning ==
    /\ call.op = "run_full_report_cycle"
    /\ CycleRecorded
    /\ call.email_sent
    /\ call.result
    /\ faults = 0
    /\ StatusOf(db, call.sync_log_id) = "running"

(***************************************************************************)
(* The phases of one full scan (adaptive_scanner.py 356-422).               *)
(***************************************************************************)
SyncRunOpen ==
    /\ sync_id # NoneInt
    /\ \E r \in db.sync_logs : r["id"] = sync_id /\ r["status"] = "running"

Reconciling == pc \in {"list_folders", "sync_folder", "get_modules"}
Scanning == pc \in {"list_files", "scan_file"}

\* C24: within one full scan a module, student or submission is written
\* only while the SyncRun row of the scan exists and is 'running'; modules
\* are written only while reconciling and students and submissions only
\* while scanning; once scanning has begun nothing is reconciled again; and
\* the terminal update is made when no module and no file is left.
C24_PhasesInOrder ==
    [][/\ (db'.modules # db.modules \/ db'.students # db.students
              \/ db'.submissions # db.submissions) => SyncRunOpen
       /\ db'.modules # db.modules => (Reconciling /\ hist.cur.students_inserted = 0
                 /\ hist.cur.submissions_inserted = 0
                 /\ hist.cur.file_errors + hist.cur.unresolved = 0)
       /\ (db'.students # db.students \/ db'.submissions # db.submissions) =>
              pc = "scan_file"
       /\ pc = "idle" => pc' \in {"idle", "list_folders", "except"}
       /\ Reconciling => (pc' \in {"except"} \/ Reconciling' \/ Scanning'
                             \/ pc' = "update_log")
       /\ Scanning => (Scanning' \/ pc' = "update_log")
       /\ pc = "update_log" =>
              /\ modules = <<>>
              /\ pc' \in {"idle", "except"}
              /\ db'.modules = db.modules
       /\ (\E r \in db.sync_logs : r["id"] = sync_id /\ r["status"] = "running"
               /\ r \notin db'.sync_logs) => pc \in {"update_log", "except"}
      ]_vars

\* a scan that created its SyncRun, reconciled a module, stored a submission
\* and is about to make the terminal update
C24_AllPhasesPassed ==
    /\ pc = "update_log"
    /\ run = 1
    /\ SyncRunOpen
    /\ Cardinality(db.modules) = 2
    /\ db.submissions # {}
    /\ modules = <<>>

(***************************************************************************)
(* Termination of a full scan.  full_adaptive_scan is sequential code over  *)
(* finite listings: a scan that has started takes its next step, so the     *)
(* steps of a started scan are weakly fair; whether a scan is started is up *)
(* to the caller.                                                           *)
(***************************************************************************)
ScanStep ==
    \/ ListFolders
    \/ SyncFolder
    \/ GetModules
    \/ ListFiles
    \/ ScanFile
    \/ EndModule
    \/ UpdateLog
    \/ HandleException

\* a scan step is enabled exactly while a scan is under way
ScanUnderWay == pc # "idle"

\* weak fairness of the scan steps, ENABLED <<ScanStep>>_vars written out
SpecLive ==
    Init /\ [][Next]_vars /\ (<>[]ScanUnderWay => []<><<ScanStep>>_vars)

\* a started scan ends
C25_ScanTerminates == (pc # "idle") ~> RunEnded

\* no scan has ended and left its SyncRun 'running'
EndedInTerminalStatus ==
    (RunEnded /\ hist.cur.log_created) => StatusOf(db, sync_id) # "running"

\* C25: a full scan that has started ends, whatever its collaborators
\* return or raise, and no scan has ended while its SyncRun is still
\* 'running'.
C25_EndsInTerminalState == C25_ScanTerminates /\ []EndedInTerminalStatus

\* a scan created its SyncRun, a later call raised, the update of the
\* handler raised too: the scan has ended and its SyncRun says 'running'
C25_EndedWhileRunning ==
    /\ RunEnded
    /\ hist.cur.log_created
    /\ ret.outcome = "raised"
    /\ StatusOf(db, sync_id) = "running"

(***************************************************************************)
(* The counters a full scan returns (adaptive_scanner.py 307-332, 393-397). *)
(***************************************************************************)
\* C26: the full scan returns in total_students the number of student rows
\* it inserted and in total_submissions the number of submission rows it
\* inserted, a file whose row was only updated not being counted.
C26_CreatedCountersAccurate ==
    RunFinished =>
        /\ ret.total_students = hist.cur.students_inserted
        /\ ret.total_submissions = hist.cur.submissions_inserted

\* a first scan in which no call raised inserted student rows and returned
\* total_students = 0
C26_InsertedYetZero ==
    /\ RunFinished
    /\ run = 1
    /\ faults = 0
    /\ hist.cur.students_inserted > 0
    /\ Cardinality(db.students) = hist.cur.students_inserted
    /\ ret.total_students = 0

(***************************************************************************)
(* The completed timestamp of a SyncRun (adaptive_dao.py 336-365).          *)
(***************************************************************************)
HasCompletedAt == "completed_at" \in Range(column_names(table_schemas, "sync_logs"))

\* C27: where sync_logs has the column completed_at, every SyncRun whose
\* status is 'completed', 'completed_with_errors' or 'failed' has its
\* completed timestamp set.
C27_TerminalHasCompletedAt ==
    HasCompletedAt =>
        \A r \in db.sync_logs :
            r["status"] \in TerminalStatuses => r["completed_at"] # NoneInt

\* a scan has returned, its SyncRun is 'completed_with_errors' and has no
\* completed timestamp
C27_EndedWithoutTimestamp ==
    /\ RunFinished
    /\ HasCompletedAt
    /\ RowById(db.sync_logs, sync_id)["status"] = "completed_with_errors"
    /\ RowById(db.sync_logs, sync_id)["completed_at"] = NoneInt

(***************************************************************************)
(* The derived fields of a submission (adaptive_dao.py 267-301).            *)
(***************************************************************************)
\* what lines 267-279 derive from the primary fields of a row; a size of 0
\* and an empty file name give no derived value
DerivedOf(r) ==
    [size_mb |-> IF r["size_bytes"] \in {0, NoneInt} THEN NoneInt
                 ELSE size_mb(r["size_bytes"]),
     file_extension |-> IF r["filename"] \in {NoneText, <<>>} THEN NoneText
                        ELSE file_extension(r["filename"])]

DerivedAgree(r) ==
    /\ r["size_mb"] = DerivedOf(r).size_mb
    /\ r["file_extension"] = DerivedOf(r).file_extension

\* C28: after any sequence of create_submission calls every stored
\* submission has the size in megabytes derived from its stored size in
\* bytes and the file extension derived from its stored file name.
C28_DerivedFieldsAgree == \A r \in db.submissions : DerivedAgree(r)

\* the file F1 was stored as a.jpg of 7 bytes and detected again as b.png of
\* 9999999 bytes: its row has the new file name and size in bytes, and the
\* extension and the size in megabytes of the old ones
C28_StaleDerivedFields ==
    /\ call.op = "create_submission"
    /\ ~call.raised
    /\ call.file_data = FileSeenAgain
    /\ \E r \in db.submissions :
          /\ r["id"] = call.id
          /\ r["filename"] = FileSeenAgain.name
          /\ r["file_extension"] = <<"j", "p", "g">>
          /\ r["size_bytes"] = 9999999
          /\ r["size_mb"] = size_mb(7)

(***************************************************************************)
(* The Entity Repository over other discovered schemas.  The columns the    *)
(* repository writes for a student are full_name and email, for a           *)
(* submission the keys of drive_mapping and the two references; a schema    *)
(* holds the contract when each table has the columns of its entity.        *)
(***************************************************************************)
StudentFields == {"id", "full_name", "email"}

SubmissionFields ==
    {"id", "module_id", "student_id", "file_id", "filename", "mime_type",
     "size_bytes", "size_mb", "file_extension", "drive_url", "created_time",
     "modified_time", "detected_at", "uploaded_by_email", "owner_email"}

HoldsContract(schemas) ==
    /\ StudentFields \subseteq Range(column_names(schemas, "students"))
    /\ SubmissionFields \subseteq Range(column_names(schemas, "submissions"))

Reversed(columns) == [i \in 1..Len(columns) |-> columns[Len(columns) + 1 - i]]

\* the deployed layout, one whose students table has the columns of the
\* entity and no other, and one whose columns come in the opposite order
DiscoveredSchemas ==
    {DeployedSchema,
     [DeployedSchema EXCEPT !.students = <<"email", "id", "full_name">>],
     [DeployedSchema EXCEPT !.students = Reversed(@),
                            !.submissions = Reversed(@)]}

InitSchema ==
    /\ table_schemas \in {schemas \in DiscoveredSchemas : HoldsContract(schemas)}
    /\ db = EmptyDb
    /\ clock = 0
    /\ pc = "dao"
    /\ run = 0
    /\ faults = 0
    /\ sync_id = NoneInt
    /\ sync_results = NoSyncResults
    /\ drive_modules = <<>>
    /\ modules = <<>>
    /\ scan = NoScan
    /\ full_results = NoFullResults
    /\ ret = NoReturn
    /\ call = NoCall
    /\ hist = [cur |-> NoRunHist, ended |-> <<>>]

SpecSchema == InitSchema /\ [][NextDao]_vars

\* the complete statement of the last repository call
CalledStatement ==
    IF call.op = "create_student"
    THEN student_statement(table_schemas, call.name, call.email)
    ELSE submission_statement(table_schemas, call.module_id, call.student_id,
                              call.file_data, clock)

CalledColumns ==
    Range(column_names(table_schemas,
                       IF call.op = "create_student" THEN "students"
                       ELSE "submissions"))

\* C29: over every discovered schema that holds the contract, the complete
\* statement of a create_student or create_submission call, upsert clause
\* included, names only columns of the discovered column list of its table.
C29_StatementNamesKnownColumns ==
    (RepositoryCalled /\ call.conn # <<>>) =>
        StatementColumns(CalledStatement) \subseteq CalledColumns

\* over a students table of id, full_name and email, create_student for a
\* valid email executed a statement that names updated_at, and raised with
\* no fault injected
C29_UnknownColumnNamed ==
    /\ call.op = "create_student"
    /\ Range(column_names(table_schemas, "students")) = StudentFields
    /\ "updated_at" \in StatementColumns(CalledStatement)
    /\ ~call.fault
    /\ call.raised
    /\ call.conn = <<"connect", "rollback", "close">>

(***************************************************************************)
(* Names the resolver takes from the file name in the metadata steps        *)
(* (adaptive_scanner.py 45-65, 76-108).                                     *)
(***************************************************************************)
\* the identity was resolved from the metadata and its name is the one
\* _extract_name_from_filename found in the file name (lines 85-86, 102-103)
BetterNamePreferred ==
    /\ Identified
    /\ call.student_info.identified
    /\ call.student_info.step \in {1, 2}
    /\ _extract_name_from_filename(call.file_data.name).found
    /\ Len(_extract_name_from_filename(call.file_data.name).name) > 3
    /\ call.student_info.name = _extract_name_from_filename(call.file_data.name).name

\* C30: a name the resolver takes from the file name, by the file name
\* patterns or as the name preferred over the metadata in steps 1 and 2,
\* never equals, case-insensitively, a word of the stoplist (modulo,
\* módulo, dulo, ejercicio, tarea, test).
C30_NoStoplistNameReturned ==
    (NameOnlyResolved \/ BetterNamePreferred) =>
        lower(call.student_info.name) \notin StoplistWords

\* "Modulo7_Test_01.jpg" last modified by Uma <u@x.io>: the resolver
\* returns the name "Test" with the email of the metadata
C30_StoplistNamePreferred ==
    /\ BetterNamePreferred
    /\ call.student_info.step = 1
    /\ call.student_info.email = Uploader.emailAddress
    /\ call.student_info.name = <<"T", "e", "s", "t">>

====
